---- MODULE Spec2Model ----
(***************************************************************************)
(* A model of the lookup-cache-and-hot-swap engine of caddy2-geocn.        *)
(*                                                                         *)
(* Spec models one GeoCN matcher (src/geocn.go): Provision/loadDatabase,   *)
(* the request path validSource with its ipCache, the refresh goroutine    *)
(* periodicUpdate -> checkNeedUpdate -> updateGeoFile, the cache sweep and *)
(* Cleanup, all interleaved at the granularity of their lock operations    *)
(* and file-system calls.  GeoCity.updateDatabaseIPv4/IPv6 and             *)
(* GeoCity.matchLocation (src/geocity.go) have the same lock/rename/open/  *)
(* close structure per stream.                                             *)
(***************************************************************************)
EXTENDS Integers, FiniteSets, Sequences, TLC

\* ------------------------------------------------------------------ bounds
\* Reader instances that may be opened in one run (geoip2.Open successes).
MaxReaders == 2
\* Clock ticks the model lets pass (time.Now()).
MaxTime == 1
\* ipCache.maxSize and ipCache.ttl of the modelled matcher: room for one entry,
\* and a ttl shorter than one tick of the model's clock.
CacheMaxSize == 1
CacheTTL == 0
\* Keywords in one list of a GeoCity (g.Provinces, g.Cities).
MaxKeywords == 1
\* Files that exist at one time while two matchers refresh (linked or open).
MaxFiles == 6

\* ------------------------------------------------------------- environment
\* Concurrent request goroutines calling validSource.
Lookers == {"l1", "l2"}
\* Public addresses that requests carry (v1 and v2 disagree on h1).
Hosts == {"h1"}
\* Contents a valid database file can have (two releases of Country.mmdb).
Versions == {"v1", "v2"}
\* File contents: no file, a truncated/invalid file, or a valid database.
Absent == "absent"
Bad == "bad"
Contents == {Absent, Bad} \cup Versions
\* The nil *geoip2.Reader.
NilReader == 0
ReaderIds == 1..MaxReaders

\* What Reader.Country answers for an address, per database content.
Country(v, h) ==
    IF (v = "v1" /\ h = "h1") \/ (v = "v2" /\ h = "h2") THEN "CN" ELSE "US"

VARIABLES
    source,      \* kind of m.Source: "http" or "local"
    localFile,   \* m.localFile: "cache" (cacheDir/Country.mmdb) or "source"
    fs,          \* file system: path -> content; paths "cache", "temp", "source"
    dbReader,    \* m.dbReader: NilReader or a reader id
    readers,     \* reader id -> [st, ver, closes]
    lockW,       \* m.lock write holder: "none", "updater" or "cleanup"
    lockR,       \* m.lock read holders: set of lookers
    cache,       \* ipCache.entries: host -> [country, ts, ver]
    now,         \* the clock
    ctxDone,     \* m.ctx is cancelled
    lpc, lhost, lreader, lres, lsrc, lver,   \* validSource calls
    lfresh,      \* history: the call began after the latest reader assignment
    upc, ucaller, uold, unew, uret, usnap,           \* Provision / periodicUpdate
    installed,   \* history: readers ever assigned to m.dbReader
    spc,         \* ipCache.cleanup goroutine: "run" or "exit"
    \* --- a cache on its own (Cache[T], ipCache, cityCache)
    kkind,       \* which Set: "generic" (Cache[T]) or "ip" (ipCache, cityCache)
    kentries,    \* entries: key -> [value, ts]
    know,        \* time.Now()
    kop,         \* the last call and what it returned
    klast,       \* history: key -> time and value of its last Set, evicted since
    kacc,        \* history: key -> time of its last Get hit or Set
    \* --- one freshness check (checkNeedUpdate)
    chk,         \* the call's inputs and its result
    \* --- one GeoCity or one GeoCN and its lookups, each in one step
    geocity,     \* g: Mode, Provinces, Cities, the searchers, the cache
    geocn,       \* m, call by call: the reader and the cache
    loc,         \* the matchLocation or validSource call and what it did
    req,         \* the request that Match is given and what Match did
    \* --- two GeoCN matchers of one process and the files of their refresh tasks
    duo,         \* each matcher's step, descriptor and reader; paths and files
    \* --- one matcher from Provision on, stream by stream
    task,        \* Provision and the ticks of periodicUpdate: searchers and files
    \* --- the IP-version detectors
    det          \* the string given to the detectors and what each returned

\* The state of one GeoCN matcher.
geocnvars == <<source, localFile, fs, dbReader, readers, lockW, lockR, cache, now,
               ctxDone, lpc, lhost, lreader, lres, lsrc, lver, lfresh,
               upc, ucaller, uold, unew, uret, usnap, installed, spc>>

\* The state of the component models that follow the matcher's.
kvars == <<kkind, kentries, know, kop, klast, kacc>>
cityvars == <<geocity, geocn, loc, req, duo, task, det>>
othervars == <<kvars, chk, cityvars>>

vars == <<geocnvars, othervars>>

lcall == <<lpc, lhost, lreader, lres, lsrc, lver>>
lvars == <<lcall, lfresh>>
uvars == <<upc, ucaller, uold, unew, uret, usnap>>
dbvars == <<dbReader, readers, installed>>
lockvars == <<lockW, lockR>>
cfgvars == <<source, localFile>>


\* ------------------------------------------------------------ readers
Opened == Cardinality({r \in ReaderIds : readers[r].st # "unopened"})
NextId == Opened + 1

\* geoip2.Open(path): succeeds only on a valid database file; the result is
\* the set of possible outcomes (an open can also fail for lack of resources).
OpenOutcomes(content) ==
    IF content \in Versions THEN {"ok", "fail"} ELSE {"fail"}

\* A fresh reader over the given content.
OpenReader(rs, id, content) ==
    [rs EXCEPT ![id] = [st |-> "open", ver |-> content, closes |-> 0]]

\* Reader.Close().
CloseReader(rs, r) ==
    [rs EXCEPT ![r] = [@ EXCEPT !.st = "closed", !.ver = Absent, !.closes = @ + 1]]

\* ------------------------------------------------------------ m.lock
\* Mutant: a read lock that does not wait for the writer.
CanRLock_IgnoresWriter == TRUE

\* Mutant: a write lock that does not wait for the read holders.
CanLock_IgnoresReaders == lockW = "none"

\* A goroutine blocked in m.lock.Lock(): the updater at its Lock call.
\* sync.RWMutex lets no new reader in while a Lock call is blocked.
WriterWaiting == upc \in {"lock", "ld_assign"}

\* RLock succeeds when no writer holds m.lock or waits for it; Lock when
\* nobody holds it.
CanRLock == lockW = "none" /\ ~WriterWaiting
CanLock == lockW = "none" /\ lockR = {}

\* ------------------------------------------------------------ ipCache
\* ipCache.get: found only while the entry's age is within ttl.
CacheHit(c, h, t) == h \in DOMAIN c /\ ~(t - c[h].ts > CacheTTL)

\* The keys evictOldest may remove: those with the smallest timestamp (map
\* iteration order decides among equals).
Oldest(c) == {k \in DOMAIN c : \A j \in DOMAIN c : c[k].ts <= c[j].ts}

Without(c, k) == [j \in (DOMAIN c) \ {k} |-> c[j]]

\* ipCache.set: evict when len(entries) >= maxSize, then store.  The result
\* is the set of caches the call can leave behind.
CacheSet(c, h, e) ==
    IF Cardinality(DOMAIN c) >= CacheMaxSize /\ DOMAIN c # {}
    THEN {(h :> e) @@ Without(c, k) : k \in Oldest(c)}
    ELSE {(h :> e) @@ c}

\* newIPCache: no entries.
EmptyCache == [k \in {} |-> [country |-> "", ts |-> 0, ver |-> Absent]]

\* One pass of ipCache.cleanup: drop the expired entries.
Swept(c, t) == [k \in {j \in DOMAIN c : ~(t - c[j].ts > CacheTTL)} |-> c[k]]

\* ------------------------------------------------------------ sources
IsHTTP == source = "http"
Live == fs[localFile]

\* What a GET of m.Source can leave at the target path: nothing (transport
\* error, non-200 status, create failure), a truncated file (io.Copy error),
\* or the complete body (a database release, or something that is not one).
DownloadOutcomes ==
    {[err |-> TRUE, wrote |-> FALSE, body |-> Absent],
     [err |-> TRUE, wrote |-> TRUE, body |-> Bad]}
    \cup {[err |-> FALSE, wrote |-> TRUE, body |-> b] : b \in Versions \cup {Bad}}

\* os.Remove(path).
Removed(f, path) == [f EXCEPT ![path] = Absent]

\* os.Rename(from, to).
Renamed(f, from, to) == [f EXCEPT ![to] = f[from], ![from] = Absent]

\* Mutant: checkNeedUpdate without the test of the source's scheme.
CheckNeedUpdate_ProbesLocal(http, exists, head, lm, elapsed) ==
    IF ~exists THEN [need |-> TRUE, err |-> FALSE]
    ELSE IF head # "ok" THEN [need |-> FALSE, err |-> TRUE]
    ELSE IF lm = "none" THEN [need |-> elapsed, err |-> FALSE]
    ELSE IF lm = "unparsable" THEN [need |-> FALSE, err |-> TRUE]
    ELSE [need |-> (lm = "newer"), err |-> FALSE]

\* checkNeedUpdate: the decision from what Stat and the HEAD probe report.
\* head is "error", "status" (non-200) or "ok"; lm is "none", "unparsable",
\* "newer" or "notnewer" (Last-Modified against the local mtime); elapsed is
\* whether time.Since(mtime) >= interval.
CheckNeedUpdate(http, exists, head, lm, elapsed) ==
    IF ~http THEN [need |-> FALSE, err |-> FALSE]
    ELSE IF ~exists THEN [need |-> TRUE, err |-> FALSE]
    ELSE IF head # "ok" THEN [need |-> FALSE, err |-> TRUE]
    ELSE IF lm = "none" THEN [need |-> elapsed, err |-> FALSE]
    ELSE IF lm = "unparsable" THEN [need |-> FALSE, err |-> TRUE]
    ELSE [need |-> (lm = "newer"), err |-> FALSE]

\* ------------------------------------------------------------ a cache on its own
\* Clock ticks of the cache model.
KMaxTime == 3
\* maxSize and ttl the cache is created with (NewCache, newIPCache,
\* newCityCache), ttl in ticks.
KMaxSize == 2
KTTL == 2
\* Keys and values of the cache model; the empty string is a key like any other.
Keys == {"", "a", "b"}
KValues == {"x", "y"}
\* The zero value Get returns with found = false.
KZero == "zero"

\* make(map[string]*cacheEntry).
KEmpty == [k \in {} |-> [value |-> KZero, ts |-> 0]]

\* Mutant: an entry expires as soon as its age reaches ttl.
KGet_ExpiresAtTTL(c, k, t) ==
    IF k \notin DOMAIN c \/ t - c[k].ts >= KTTL
    THEN [found |-> FALSE, value |-> KZero]
    ELSE [found |-> TRUE, value |-> c[k].value]

\* Cache.Get / ipCache.get / cityCache.get: not found when the key is absent
\* or time.Since(entry.timestamp) > ttl; the timestamp is not touched.
KGet(c, k, t) ==
    IF k \notin DOMAIN c \/ t - c[k].ts > KTTL
    THEN [found |-> FALSE, value |-> KZero]
    ELSE [found |-> TRUE, value |-> c[k].value]

\* evictOldest: the scan keeps a key of smallest timestamp (which one among
\* equals is up to the map's iteration order) and deletes it unless that key
\* is the empty string.  The result is the set of maps it can leave.
KEvictOldest(c) ==
    IF DOMAIN c = {} THEN {c}
    ELSE {IF k = "" THEN c ELSE Without(c, k) : k \in Oldest(c)}

\* Set: Cache[T].Set evicts when the key is new and len(entries) >= maxSize;
\* ipCache.set and cityCache.set evict whenever len(entries) >= maxSize.  Then
\* the entry is stored with time.Now().
KSet(kind, c, k, e) ==
    LET full == Cardinality(DOMAIN c) >= KMaxSize
        evict == IF kind = "generic" THEN k \notin DOMAIN c /\ full ELSE full
    IN {(k :> e) @@ d : d \in (IF evict THEN KEvictOldest(c) ELSE {c})}

\* Mutant: the sweep also drops the entries whose age equals ttl.
KSwept_Eager(c, t) == [k \in {j \in DOMAIN c : ~(t - c[j].ts >= KTTL)} |-> c[k]]

\* One pass of Cleanup's ticker branch: delete where now.Sub(timestamp) > ttl.
KSwept(c, t) == [k \in {j \in DOMAIN c : ~(t - c[j].ts > KTTL)} |-> c[k]]

NoOp == [op |-> "none", key |-> "", found |-> FALSE, value |-> KZero]
NeverSet == [set |-> FALSE, t |-> 0, v |-> KZero, ev |-> FALSE]

\* A cache just created.
KNew ==
    /\ kentries = KEmpty
    /\ know = 0
    /\ kop = NoOp
    /\ klast = [k \in Keys |-> NeverSet]
    /\ kacc = [k \in Keys |-> 0]

\* ------------------------------------------------------------ one freshness check
\* The fallback interval of checkNeedUpdate, in hours.
DefaultInterval == 24

\* What one call of checkNeedUpdate meets: whether the source is HTTP, the two
\* os.Stat results, the HEAD outcome ("error", "status" for non-200, "ok"),
\* the Last-Modified header ("none", "unparsable", "time"), the remote time
\* and the local mtime, time.Since(mtime) and m.Interval in hours.
ChkInputs ==
    [http : BOOLEAN, exists : BOOLEAN, exists2 : BOOLEAN,
     head : {"error", "status", "ok"}, lm : {"none", "unparsable", "time"},
     remote : 0..2, mtime : 0..2,
     since : {0, 23, 24, 25}, interval : {0 - 1, 0, 1, 24, 25}]

\* Mutant: a remote time equal to the local mtime also asks for an update.
CheckNeedUpdateOf_NotStrict(in) ==
    IF ~in.http THEN [need |-> FALSE, err |-> FALSE]
    ELSE IF ~in.exists THEN [need |-> TRUE, err |-> FALSE]
    ELSE IF in.head # "ok" THEN [need |-> FALSE, err |-> TRUE]
    ELSE IF in.lm = "none"
         THEN IF ~in.exists2 THEN [need |-> TRUE, err |-> FALSE]
              ELSE LET interval == IF in.interval <= 0 THEN DefaultInterval ELSE in.interval
                   IN [need |-> in.since >= interval, err |-> FALSE]
    ELSE IF in.lm = "unparsable" THEN [need |-> FALSE, err |-> TRUE]
    ELSE IF ~in.exists2 THEN [need |-> TRUE, err |-> FALSE]
    ELSE [need |-> in.remote >= in.mtime, err |-> FALSE]

\* Mutant: the interval is used as configured, zero and negative included.
CheckNeedUpdateOf_NoDefaultInterval(in) ==
    IF ~in.http THEN [need |-> FALSE, err |-> FALSE]
    ELSE IF ~in.exists THEN [need |-> TRUE, err |-> FALSE]
    ELSE IF in.head # "ok" THEN [need |-> FALSE, err |-> TRUE]
    ELSE IF in.lm = "none"
         THEN IF ~in.exists2 THEN [need |-> TRUE, err |-> FALSE]
              ELSE [need |-> in.since >= in.interval, err |-> FALSE]
    ELSE IF in.lm = "unparsable" THEN [need |-> FALSE, err |-> TRUE]
    ELSE IF ~in.exists2 THEN [need |-> TRUE, err |-> FALSE]
    ELSE [need |-> in.remote > in.mtime, err |-> FALSE]

\* GeoCN.checkNeedUpdate (GeoCity.checkNeedUpdate and checkRemoteUpdate are
\* the same from the first Stat on).
CheckNeedUpdateOf(in) ==
    IF ~in.http THEN [need |-> FALSE, err |-> FALSE]
    ELSE IF ~in.exists THEN [need |-> TRUE, err |-> FALSE]
    ELSE IF in.head # "ok" THEN [need |-> FALSE, err |-> TRUE]
    ELSE IF in.lm = "none"
         THEN IF ~in.exists2 THEN [need |-> TRUE, err |-> FALSE]
              ELSE LET interval == IF in.interval <= 0 THEN DefaultInterval ELSE in.interval
                   IN [need |-> in.since >= interval, err |-> FALSE]
    ELSE IF in.lm = "unparsable" THEN [need |-> FALSE, err |-> TRUE]
    ELSE IF ~in.exists2 THEN [need |-> TRUE, err |-> FALSE]
    ELSE [need |-> in.remote > in.mtime, err |-> FALSE]

NoInputs ==
    [http |-> FALSE, exists |-> FALSE, exists2 |-> FALSE, head |-> "error",
     lm |-> "none", remote |-> 0, mtime |-> 0, since |-> 0, interval |-> 0]
NoCheck == [st |-> "idle", in |-> NoInputs, need |-> FALSE, err |-> FALSE]

\* ------------------------------------------------------------ GeoCity lookups
\* Strings are sequences of characters.  "CN" stands for the one string "中国"
\* and "US" for "美国"; "a" and "ab" stand for a name and its longer form
\* ("北京", "北京市"), "b" for another name.
Domestic == <<"CN">>
\* Values of g.Provinces and g.Cities: lists of at most MaxKeywords keywords.
KeywordLists ==
    {S \in SUBSET {<<>>, <<"a">>, <<"a", "b">>, <<"b">>} : Cardinality(S) <= MaxKeywords}
\* What SearchByStr can answer: an error, or a region string
\* country|area|province|city|isp, or one with fewer fields.
Answers ==
    LET country == {<<"CN">>, <<" ", "CN">>, <<"US">>}
        field == {<<>>, <<"a">>, <<"a", "b">>, <<" ", "b", " ">>}
        regions ==
            {c \o <<"|", "0", "|">> \o p \o <<"|">> \o ci \o <<"|", "i">> :
                c \in country, p \in field, ci \in field}
            \cup {<<>>, <<"CN", "|", "0", "|", "a">>, <<"CN", "|", "0", "|", "a", "|", "a">>}
    IN [err : {TRUE}, region : {<<>>}] \cup [err : {FALSE}, region : regions]

\* Addresses a request can carry; NilIP is the nil net.IP of a string that
\* does not parse.
NilIP == "nil"
IPs == {"1.2.3.4", "::ffff:1.2.3.4", "2001::1",
        "10.0.0.1", "127.0.0.1", "169.254.0.1", "0.0.0.0", "224.0.0.1", "ff0e::1"}

\* Mutant: multicast addresses are looked up.
checkPrivateIP_NoMulticast(ip) ==
    \/ ip = "127.0.0.1"
    \/ ip = "169.254.0.1"
    \/ ip = "10.0.0.1"
    \/ ip = "0.0.0.0"

checkPrivateIP(ip) ==
    \/ ip = "127.0.0.1"                   \* IsLoopback
    \/ ip = "224.0.0.1"                   \* IsLinkLocalMulticast
    \/ ip = "169.254.0.1"                 \* IsLinkLocalUnicast
    \/ ip = "10.0.0.1"                    \* IsPrivate
    \/ ip = "0.0.0.0"                     \* IsUnspecified
    \/ ip \in {"224.0.0.1", "ff0e::1"}    \* IsMulticast

\* Mutant: an IPv4-mapped IPv6 address counts as IPv6.
To4_NotMapped(ip) == ip \in {"1.2.3.4", "10.0.0.1", "127.0.0.1", "169.254.0.1", "0.0.0.0", "224.0.0.1"}

\* ip.To4() != nil: the address has a 4-byte form.
To4(ip) ==
    ip \in {"1.2.3.4", "::ffff:1.2.3.4", "10.0.0.1", "127.0.0.1", "169.254.0.1",
            "0.0.0.0", "224.0.0.1"}

\* ip.String(): an IPv4-mapped address prints in dotted form.
IPString(ip) == IF ip = "::ffff:1.2.3.4" THEN "1.2.3.4" ELSE ip

\* strings.Contains(s, sub).
Contains(s, sub) ==
    \E i \in 0..(Len(s) - Len(sub)) : SubSeq(s, i + 1, i + Len(sub)) = sub

\* strings.TrimSpace(s).
TrimSpace(s) ==
    LET RECURSIVE Left(_), Right(_)
        Left(t) == IF t # <<>> /\ Head(t) = " " THEN Left(Tail(t)) ELSE t
        Right(t) == IF t # <<>> /\ t[Len(t)] = " " THEN Right(SubSeq(t, 1, Len(t) - 1)) ELSE t
    IN Right(Left(s))

\* strings.Split(s, sep) for a separator of one character.
RECURSIVE Split(_, _)
Split(s, sep) ==
    IF \A i \in 1..Len(s) : s[i] # sep THEN <<s>>
    ELSE LET i == CHOOSE j \in 1..Len(s) : s[j] = sep /\ \A h \in 1..(j - 1) : s[h] # sep
         IN <<SubSeq(s, 1, i - 1)>> \o Split(SubSeq(s, i + 1, Len(s)), sep)

\* Mutant: a keyword matches only when the field contains it.
isDenied_OneWay(g, province, city) ==
    \/ \E p \in g.Provinces : Contains(province, p)
    \/ \E c \in g.Cities : Contains(city, c)

\* GeoCity.isDenied.
isDenied(g, province, city) ==
    \/ \E p \in g.Provinces : Contains(province, p) \/ Contains(p, province)
    \/ \E c \in g.Cities : Contains(city, c) \/ Contains(c, city)

\* GeoCity.isAllowed.
isAllowed(g, province, city) ==
    \/ g.Provinces = {} /\ g.Cities = {}
    \/ \E p \in g.Provinces : Contains(province, p) \/ Contains(p, province)
    \/ \E c \in g.Cities : Contains(city, c) \/ Contains(c, city)

\* Mutant: the verdict of a region with too few fields is stored as well.
RegionVerdict_StoresShort(g, region) ==
    LET parts == Split(region, "|")
    IN IF Len(parts) < 4 THEN [matched |-> FALSE, store |-> TRUE]
       ELSE LET country == TrimSpace(parts[1])
                province == TrimSpace(parts[3])
                city == TrimSpace(parts[4])
                matched ==
                    IF country # Domestic
                    THEN CASE g.Mode = "allow" -> FALSE
                           [] g.Mode = "deny" -> TRUE
                           [] OTHER -> FALSE
                    ELSE CASE g.Mode = "allow" -> isAllowed(g, province, city)
                           [] g.Mode = "deny" -> ~isDenied(g, province, city)
                           [] OTHER -> FALSE
            IN [matched |-> matched, store |-> TRUE]

\* GeoCity.matchLocation from the split on: the verdict for a region, and
\* whether the verdict is one that matchLocation stores.
RegionVerdict(g, region) ==
    LET parts == Split(region, "|")
    IN IF Len(parts) < 4 THEN [matched |-> FALSE, store |-> FALSE]
       ELSE LET country == TrimSpace(parts[1])
                province == TrimSpace(parts[3])
                city == TrimSpace(parts[4])
                matched ==
                    IF country # Domestic
                    THEN CASE g.Mode = "allow" -> FALSE
                           [] g.Mode = "deny" -> TRUE
                           [] OTHER -> FALSE
                    ELSE CASE g.Mode = "allow" -> isAllowed(g, province, city)
                           [] g.Mode = "deny" -> ~isDenied(g, province, city)
                           [] OTHER -> FALSE
            IN [matched |-> matched, store |-> TRUE]

\* GeoCity.matchLocation(ip) when the searcher, if asked, answers ans: the
\* verdict, the cache afterwards, the searcher asked, and whether the cache
\* was read and written.  The cache has room for every key of the model.
MatchLocation(g, ip, ans) ==
    LET out == [matched |-> FALSE, entries |-> g.entries, searched |-> "none",
                cread |-> FALSE, hit |-> FALSE, cwrite |-> FALSE]
        key == IPString(ip)
    IN IF ip = NilIP \/ checkPrivateIP(ip) THEN out
       ELSE IF g.cacheOn /\ key \in DOMAIN g.entries
            THEN [out EXCEPT !.matched = g.entries[key], !.cread = TRUE, !.hit = TRUE]
       ELSE LET family == IF To4(ip) THEN "IPv4" ELSE "IPv6"
                searcher == IF To4(ip) THEN g.searcherIPv4 ELSE g.searcherIPv6
                missed == [out EXCEPT !.cread = g.cacheOn]
            IN IF ~searcher THEN missed
               ELSE IF ans.err THEN [missed EXCEPT !.searched = family]
               ELSE LET v == RegionVerdict(g, ans.region)
                        put == g.cacheOn /\ v.store
                    IN [missed EXCEPT
                          !.searched = family,
                          !.matched = v.matched,
                          !.cwrite = put,
                          !.entries = IF put
                                      THEN [k \in DOMAIN g.entries \cup {key} |->
                                              IF k = key THEN v.matched ELSE g.entries[k]]
                                      ELSE g.entries]

\* A GeoCity after Provision: at least one searcher is loaded, the cache is
\* empty or disabled.  TRUE stands for a searcher that is not nil.
CityConfigs ==
    {g \in [provisioned : {TRUE}, Mode : {"allow", "deny", "block"},
            Provinces : KeywordLists, Cities : KeywordLists,
            searcherIPv4 : BOOLEAN, searcherIPv6 : BOOLEAN,
            cacheOn : BOOLEAN, entries : {<<>>}] :
        g.searcherIPv4 \/ g.searcherIPv6}
NoCity ==
    [provisioned |-> FALSE, Mode |-> "", Provinces |-> {}, Cities |-> {},
     searcherIPv4 |-> FALSE, searcherIPv6 |-> FALSE, cacheOn |-> FALSE, entries |-> <<>>]
NoLoc ==
    [st |-> "idle", ip |-> NilIP, ans |-> [err |-> TRUE, region |-> <<>>],
     matched |-> FALSE, searched |-> "none", cread |-> FALSE, hit |-> FALSE,
     cwrite |-> FALSE]

\* ------------------------------------------------------------ GeoCN lookups, call by call
\* net.ParseIP on the strings a request can carry: the addresses, the empty
\* string and a string that is no address.  Callers pass trimmed strings, and
\* netip.ParseAddr accepts every string of the model that net.ParseIP accepts.
ParseIP(s) == IF s \in IPs THEN s ELSE NilIP

\* Mutant: the country is stored whatever it is, the empty code included.
ValidSource_CachesEmptyCountry(m, host, ans) ==
    LET out == [matched |-> FALSE, entries |-> m.entries, searched |-> "none",
                cread |-> FALSE, hit |-> FALSE, cwrite |-> FALSE]
    IN IF host = "" THEN out
       ELSE IF ParseIP(host) = NilIP \/ checkPrivateIP(ParseIP(host)) THEN out
       ELSE IF m.cacheOn /\ host \in DOMAIN m.entries
            THEN [out EXCEPT !.matched = (m.entries[host] = "CN"), !.cread = TRUE,
                             !.hit = TRUE]
       ELSE LET missed == [out EXCEPT !.cread = m.cacheOn]
            IN IF ~m.dbReader THEN missed
               ELSE IF ans.err THEN [missed EXCEPT !.searched = "dbReader"]
               ELSE LET put == m.cacheOn
                    IN [missed EXCEPT
                          !.searched = "dbReader",
                          !.matched = (ans.country = "CN"),
                          !.cwrite = put,
                          !.entries = IF put
                                      THEN [k \in DOMAIN m.entries \cup {host} |->
                                              IF k = host THEN ans.country ELSE m.entries[k]]
                                      ELSE m.entries]

\* GeoCN.validSource(host) when the reader, if asked, answers ans (an error
\* stands for an error, a nil record and a record without data): the verdict,
\* the cache afterwards, whether the reader was asked, and whether the cache
\* was read and written.  The cache has room for every key of the model.
ValidSource(m, host, ans) ==
    LET out == [matched |-> FALSE, entries |-> m.entries, searched |-> "none",
                cread |-> FALSE, hit |-> FALSE, cwrite |-> FALSE]
    IN IF host = "" THEN out
       ELSE IF ParseIP(host) = NilIP \/ checkPrivateIP(ParseIP(host)) THEN out
       ELSE IF m.cacheOn /\ host \in DOMAIN m.entries
            THEN [out EXCEPT !.matched = (m.entries[host] = "CN"), !.cread = TRUE,
                             !.hit = TRUE]
       ELSE LET missed == [out EXCEPT !.cread = m.cacheOn]
            IN IF ~m.dbReader THEN missed
               ELSE IF ans.err THEN [missed EXCEPT !.searched = "dbReader"]
               ELSE LET put == m.cacheOn /\ ans.country # ""
                    IN [missed EXCEPT
                          !.searched = "dbReader",
                          !.matched = (ans.country = "CN"),
                          !.cwrite = put,
                          !.entries = IF put
                                      THEN [k \in DOMAIN m.entries \cup {host} |->
                                              IF k = host THEN ans.country ELSE m.entries[k]]
                                      ELSE m.entries]

\* What Reader.Country can answer.
CountryAnswers == [err : {TRUE}, country : {""}] \cup [err : {FALSE}, country : {"CN", "US", ""}]
\* A GeoCN after Provision: the reader is loaded (TRUE stands for a reader
\* that is not nil), the cache is empty or disabled.
CNConfigs == [provisioned : {TRUE}, dbReader : {TRUE}, cacheOn : BOOLEAN, entries : {<<>>}]
NoCN == [provisioned |-> FALSE, dbReader |-> FALSE, cacheOn |-> FALSE, entries |-> <<>>]

\* ------------------------------------------------------------ request matching
\* Header values and RemoteAddr are sequences of characters in which an
\* address, a port and a word that is no address are one character each.
\* getHost(s): the host part of host:port, or s itself, trimmed.
getHost(s) ==
    LET n == Len(s)
    IN TrimSpace(IF n >= 3 /\ s[n - 1] = ":" /\ s[n] = "80" THEN SubSeq(s, 1, n - 2) ELSE s)

\* The string that validSource and net.ParseIP are given, for a sequence of
\* characters: an address, the empty string, or a string that is no address.
Str(s) == IF s = <<>> THEN "" ELSE IF Len(s) = 1 THEN s[1] ELSE "bad"

\* detectIPVersion(ip): IPv4 for a nil address and for an address with a
\* 4-byte form, IPv6 for every other address.
detectIPVersion(ip) ==
    IF ip = NilIP THEN "IPv4"
    ELSE IF ~To4(ip) THEN "IPv6"
    ELSE "IPv4"

\* detectIPVersionFromString(ipStr). An address or a word is one element of
\* ipStr and holds the colons of its text; ":" , " " and the port "80" are
\* elements of their own. last is the element of the last colon (0 without a
\* colon), so strings.LastIndex(ipStr, ":") > 0 unless there is no colon or
\* the only colon opens the string; with one colon, ipStr[:idx] is what stands
\* before that element.
detectIPVersionFromString(ipStr) ==
    LET Colons(c) == CASE c = ":" -> 1
                       [] c \in {"::ffff:1.2.3.4", "2001::1", "ff0e::1"} -> 3
                       [] c = "x:y:z" -> 2
                       [] OTHER -> 0
        RECURSIVE Count(_)
        Count(t) == IF t = <<>> THEN 0 ELSE Colons(Head(t)) + Count(Tail(t))
        at == {i \in 1..Len(ipStr) : Colons(ipStr[i]) > 0}
        last == IF at = {} THEN 0 ELSE CHOOSE i \in at : \A j \in at : j <= i
    IN IF last > 1 \/ (last = 1 /\ ipStr[1] # ":")
       THEN IF Count(ipStr) > 1
            THEN "IPv6"
            ELSE detectIPVersion(ParseIP(Str(TrimSpace(SubSeq(ipStr, 1, last - 1)))))
       ELSE detectIPVersion(ParseIP(Str(TrimSpace(ipStr))))

\* What the database says of each public address while one request is matched.
DBs(kind) ==
    [{"1.2.3.4", "2001::1"} ->
        IF kind = "geocn"
        THEN [err : {FALSE}, country : {"CN", "US"}]
        ELSE [err : {FALSE}, region : {<<"CN", "|", "0", "|", "a", "|", "a", "|", "i">>,
                                       <<"US", "|", "0", "|", "a", "|", "a", "|", "i">>}]]

\* The requests of the model.
Requests ==
    [remote : {<<"1.2.3.4", ":", "80">>, <<"10.0.0.1", ":", "80">>, <<"bad">>},
     xff : {<<>>, <<"2001::1">>, <<" ", "2001::1", ",", "1.2.3.4">>, <<"bad">>,
            <<" ", ",", "1.2.3.4">>, <<"10.0.0.1", ",", "2001::1">>,
            <<"1.2.3.4", ":", "80">>},
     xri : {<<>>, <<" ", "1.2.3.4">>, <<"2001::1">>, <<"bad">>}]
NoReq == [st |-> "idle", r |-> [remote |-> <<>>, xff |-> <<>>, xri |-> <<>>],
          db |-> <<>>, result |-> FALSE, seen |-> <<>>]

\* ------------------------------------------------------------ Provision and the cache
\* The defaults of Provision.  Durations are in seconds.
DefaultCacheSize == 10000
DefaultCacheTTL == 300

\* Mutant: only a size of zero is replaced by the default, as for the ttl.
ProvisionCache_ZeroSizeOnly(enable, size, ttl) ==
    LET on == enable # "false"
    IN [EnableCache |-> IF enable = "nil" THEN "true" ELSE enable,
        cacheOn |-> on,
        CacheMaxSize |-> IF on /\ size = 0 THEN DefaultCacheSize ELSE size,
        CacheTTL |-> IF on /\ ttl = 0 THEN DefaultCacheTTL ELSE ttl]

\* What Provision makes of EnableCache (a *bool: "nil", "true" or "false"),
\* CacheMaxSize and CacheTTL: the fields afterwards, and whether a cache is
\* made.
ProvisionCache(enable, size, ttl) ==
    LET on == enable # "false"
    IN [EnableCache |-> IF enable = "nil" THEN "true" ELSE enable,
        cacheOn |-> on,
        CacheMaxSize |-> IF on /\ size <= 0 THEN DefaultCacheSize ELSE size,
        CacheTTL |-> IF on /\ ttl = 0 THEN DefaultCacheTTL ELSE ttl]

\* The cache configurations of the model: sizes with room for every key.
CacheConfigs ==
    [EnableCache : {"nil", "true", "false"}, CacheMaxSize : {0 - 1, 0, 5},
     CacheTTL : {0 - 1, 0, 60}]

\* ------------------------------------------------------------ two matchers, one directory
\* Two GeoCN matchers provisioned in one process, each with an HTTP source.
Insts == {"A", "B"}
\* m.localFile after Provision: AppDataDir()/geocn/Country.mmdb, whatever the
\* matcher and its source.  updateGeoFile's tempFile is localFile + ".temp",
\* here Append(LocalFile(i), ".temp").
LocalFile(i) == <<"geocn", "Country.mmdb">>
\* Both matchers are provisioned: the live file is a valid database that both
\* have open, and no refresh is under way.  Files are numbered; a path names
\* a file or none (0); a descriptor and a reader hold a file, linked or not.
NoDuo ==
    [pc |-> [i \in Insts |-> "idle"],
     fd |-> [i \in Insts |-> 0],
     reader |-> [i \in Insts |-> 1],
     fs |-> [p \in {LocalFile(i) : i \in Insts} \cup {Append(LocalFile(i), ".temp") : i \in Insts} |->
               IF p \in {LocalFile(i) : i \in Insts} THEN 1 ELSE 0],
     data |-> [n \in 1..MaxFiles |-> IF n = 1 THEN "v0" ELSE "none"],
     op |-> [by |-> "none", kind |-> "none", files |-> {}]]

\* A file that no path names and no descriptor or reader holds is gone.
Freed(d) ==
    [d EXCEPT !.data = [n \in 1..MaxFiles |->
                          IF \/ \E q \in DOMAIN d.fs : d.fs[q] = n
                             \/ \E j \in Insts : d.fd[j] = n \/ d.reader[j] = n
                          THEN d.data[n] ELSE "none"]]

\* ------------------------------------------------------------ one matcher, stream by stream
\* The database streams of a matcher, in the order Provision and periodicUpdate
\* take them: one reader for a GeoCN, two searchers for a GeoCity.
Streams(kind) == IF kind = "geocn" THEN <<"country">> ELSE <<"ipv4", "ipv6">>

\* No matcher.  Per stream: src is the kind of the source, origin the content
\* of a local source file, file the content of the cache file, temp that of
\* the cache file's .temp, searcher the content the stream's reader or
\* searcher was opened on ("nil" for a nil field).
NoTask ==
    [kind |-> "none", pc |-> "new", cur |-> 1, src |-> <<>>, origin |-> <<>>,
     file |-> <<>>, temp |-> <<>>, searcher |-> <<>>, err |-> FALSE, started |-> 0,
     ticked |-> FALSE, tried |-> {}, failed |-> {}]

\* loadDatabase for stream s: the cache file if it opens, else the source is
\* downloaded or copied to the cache file and opened.  o says how the
\* environment answers: the two opens, the GET, the copy.
LoadDatabase(t, s, o) ==
    IF t.file[s] \in Versions /\ o.open1
    THEN [t EXCEPT !.searcher[s] = t.file[s]]
    ELSE IF t.src[s] = "http"
         THEN LET got == IF o.dl.wrote THEN o.dl.body ELSE t.file[s]
              IN IF o.dl.err \/ got \notin Versions \/ ~o.open2
                 THEN [t EXCEPT !.file[s] = got, !.failed = @ \cup {s}]
                 ELSE [t EXCEPT !.file[s] = got, !.searcher[s] = got]
         ELSE IF t.origin[s] = Absent
              THEN [t EXCEPT !.failed = @ \cup {s}]
              ELSE LET got == CASE o.copy = "ok" -> t.origin[s]
                                [] o.copy = "partial" -> Bad
                                [] OTHER -> t.file[s]
                   IN IF ~o.open2
                      THEN [t EXCEPT !.file[s] = got, !.failed = @ \cup {s}]
                      ELSE [t EXCEPT !.file[s] = got, !.searcher[s] = t.origin[s]]

\* Mutant: the new searcher is stored in the field of the first stream.
UpdateDatabase_StoresInFirst(t, s, o) ==
    LET got == IF o.dl.wrote THEN o.dl.body ELSE t.temp[s]
    IN IF o.dl.err \/ got \notin Versions \/ ~o.valid \/ ~o.rename
       THEN [t EXCEPT !.temp[s] = Absent, !.failed = @ \cup {s}]
       ELSE IF ~o.open2
            THEN [t EXCEPT !.temp[s] = Absent, !.file[s] = got, !.failed = @ \cup {s}]
            ELSE [t EXCEPT !.temp[s] = Absent, !.file[s] = got,
                           !.searcher[Streams(t.kind)[1]] = got]

\* updateGeoFile / updateDatabaseIPv4 / updateDatabaseIPv6 for stream s with
\* an HTTP source: download to the temp file, validate, rename, reopen, swap.
UpdateDatabase(t, s, o) ==
    LET got == IF o.dl.wrote THEN o.dl.body ELSE t.temp[s]
    IN IF o.dl.err \/ got \notin Versions \/ ~o.valid \/ ~o.rename
       THEN [t EXCEPT !.temp[s] = Absent, !.failed = @ \cup {s}]
       ELSE IF ~o.open2
            THEN [t EXCEPT !.temp[s] = Absent, !.file[s] = got, !.failed = @ \cup {s}]
            ELSE [t EXCEPT !.temp[s] = Absent, !.file[s] = got, !.searcher[s] = got]

\* The detectors before a call: no string and no answers.
NoDet == [pc |-> "idle", s |-> <<>>, fromString |-> "", fromIP |-> ""]

\* The component models while the matcher's runs: a new generic cache, no check,
\* no GeoCity, no request, no second matcher, no matcher stream by stream.
OthersIdle ==
    /\ kkind = "generic"
    /\ KNew
    /\ chk = NoCheck
    /\ geocity = NoCity
    /\ geocn = NoCN
    /\ loc = NoLoc
    /\ req = NoReq
    /\ duo = NoDuo
    /\ task = NoTask
    /\ det = NoDet

\* ------------------------------------------------------------ initial state
NoLookup == [l \in Lookers |-> "idle"]

GeoCNInit ==
    /\ source \in {"http", "local"}
    /\ localFile = "cache"
    /\ fs \in {f \in [{"cache", "temp", "source"} -> Contents] :
                 /\ f["temp"] = Absent
                 /\ f["cache"] \in {Absent, "v1"}
                 /\ f["source"] \in (IF source = "local" THEN {Absent, "v1"} ELSE {Absent})}
    /\ dbReader = NilReader
    /\ readers = [r \in ReaderIds |-> [st |-> "unopened", ver |-> Absent, closes |-> 0]]
    /\ lockW = "none"
    /\ lockR = {}
    /\ cache = EmptyCache
    /\ now = 0
    /\ ctxDone = FALSE
    /\ lpc = NoLookup
    /\ lhost = [l \in Lookers |-> "h1"]
    /\ lreader = [l \in Lookers |-> NilReader]
    /\ lres = [l \in Lookers |-> FALSE]
    /\ lsrc = [l \in Lookers |-> "none"]
    /\ lver = [l \in Lookers |-> Absent]
    /\ lfresh = [l \in Lookers |-> FALSE]
    /\ upc = "new"
    /\ ucaller = "provision"
    /\ uold = NilReader
    /\ unew = NilReader
    /\ uret = "none"
    /\ usnap = NilReader
    /\ installed = {}
    /\ spc = "run"

Init == GeoCNInit /\ OthersIdle

\* The matcher not yet provisioned, while a component model runs.
GeoCNIdle ==
    /\ GeoCNInit
    /\ source = "http"
    /\ fs = [p \in {"cache", "temp", "source"} |-> Absent]

\* Provision has returned nil: requests and the refresh goroutine run.
Provisioned == ucaller # "provision"


\* ------------------------------------------------------------ validSource
\* Lines 97-112: the address is public; the cache is consulted first.
L_Start(l, h) ==
    /\ Provisioned
    /\ lpc[l] = "idle"
    /\ lhost' = [lhost EXCEPT ![l] = h]
    /\ lfresh' = [lfresh EXCEPT ![l] = TRUE]
    /\ IF CacheHit(cache, h, now)
       THEN /\ lres' = [lres EXCEPT ![l] = (cache[h].country = "CN")]
            /\ lsrc' = [lsrc EXCEPT ![l] = "cache"]
            /\ lver' = [lver EXCEPT ![l] = cache[h].ver]
            /\ lpc' = [lpc EXCEPT ![l] = "ret"]
       ELSE /\ lpc' = [lpc EXCEPT ![l] = "rlock"]
            /\ UNCHANGED <<lres, lsrc, lver>>
    /\ UNCHANGED <<othervars, spc, cfgvars, fs, dbvars, lockvars, cache, now, ctxDone, lreader,
                   uvars>>

\* Mutant: validSource without the nil check on m.dbReader.
L_RLock_NoNilCheck(l) ==
    /\ lpc[l] = "rlock"
    /\ CanRLock
    /\ lockR' = lockR \cup {l}
    /\ lreader' = [lreader EXCEPT ![l] = dbReader]
    /\ lpc' = [lpc EXCEPT ![l] = "query"]
    /\ UNCHANGED <<othervars, spc, cfgvars, fs, dbvars, lockW, cache, now, ctxDone,
                   lhost, lver, lfresh, uvars, lres, lsrc>>

\* Lines 120-126: RLock, then the nil check on m.dbReader; the reader that
\* Country is called on is read here, once.
L_RLock(l) ==
    /\ lpc[l] = "rlock"
    /\ CanRLock
    /\ lockR' = lockR \cup {l}
    /\ IF dbReader = NilReader
       THEN /\ lres' = [lres EXCEPT ![l] = FALSE]
            /\ lsrc' = [lsrc EXCEPT ![l] = "nil"]
            /\ lpc' = [lpc EXCEPT ![l] = "ret"]
            /\ UNCHANGED lreader
       ELSE /\ lreader' = [lreader EXCEPT ![l] = dbReader]
            /\ lpc' = [lpc EXCEPT ![l] = "query"]
            /\ UNCHANGED <<lres, lsrc>>
    /\ UNCHANGED <<othervars, spc, cfgvars, fs, dbvars, lockW, cache, now, ctxDone, lhost, lver,
                   lfresh, uvars>>

\* Lines 128-140: the query completes on the reader it started on; a closed
\* reader answers with an error.  The country is cached and compared.
L_Query(l) ==
    /\ lpc[l] = "query"
    /\ LET r == lreader[l]
           h == lhost[l]
       IN IF readers[r].st = "open"
          THEN LET c == Country(readers[r].ver, h)
               IN /\ cache' \in CacheSet(cache, h,
                                  [country |-> c, ts |-> now, ver |-> readers[r].ver])
                  /\ lres' = [lres EXCEPT ![l] = (c = "CN")]
                  /\ lsrc' = [lsrc EXCEPT ![l] = "db"]
                  /\ lver' = [lver EXCEPT ![l] = readers[r].ver]
          ELSE /\ lres' = [lres EXCEPT ![l] = FALSE]
               /\ lsrc' = [lsrc EXCEPT ![l] = "err"]
               /\ UNCHANGED <<cache, lver>>
    /\ lpc' = [lpc EXCEPT ![l] = "ret"]
    /\ UNCHANGED <<othervars, spc, cfgvars, fs, dbvars, lockvars, now, ctxDone, lhost, lreader,
                   lfresh, uvars>>

\* The return: the deferred RUnlock runs (line 121) if the lock was taken.
L_Return(l) ==
    /\ lpc[l] = "ret"
    /\ lockR' = lockR \ {l}
    /\ lpc' = [lpc EXCEPT ![l] = "idle"]
    /\ lreader' = [lreader EXCEPT ![l] = NilReader]
    /\ lres' = [lres EXCEPT ![l] = FALSE]
    /\ lsrc' = [lsrc EXCEPT ![l] = "none"]
    /\ lver' = [lver EXCEPT ![l] = Absent]
    /\ lhost' = [lhost EXCEPT ![l] = "h1"]
    /\ lfresh' = [lfresh EXCEPT ![l] = FALSE]
    /\ UNCHANGED <<othervars, spc, cfgvars, fs, dbvars, lockW, cache, now, ctxDone, uvars>>

\* ------------------------------------------------------------ ipCache.cleanup, clock
\* Lines 326-334: a tick of the sweep's ticker.
CacheSweep ==
    /\ Provisioned
    /\ spc = "run"
    /\ cache' = Swept(cache, now)
    /\ UNCHANGED <<othervars, spc, cfgvars, fs, dbvars, lockvars, now, ctxDone, lvars, uvars>>

AdvanceTime ==
    /\ now < MaxTime
    /\ now' = now + 1
    /\ UNCHANGED <<othervars, spc, cfgvars, fs, dbvars, lockvars, cache, ctxDone, lvars, uvars>>

\* Mutant: the sweep answers ctx.Done() with one more pass and stays.
SweepExit_KeepsTicking ==
    /\ spc = "run"
    /\ ctxDone
    /\ cache' = Swept(cache, now)
    /\ UNCHANGED <<othervars, spc, cfgvars, fs, dbvars, lockvars, now, ctxDone,
                   lvars, uvars>>

\* Lines 335-336: the sweep takes <-ctx.Done() and returns.
SweepExit ==
    /\ spc = "run"
    /\ ctxDone
    /\ spc' = "exit"
    /\ UNCHANGED <<othervars, cfgvars, fs, dbvars, lockvars, cache, now, ctxDone,
                   lvars, uvars>>

\* The owning context is cancelled.
CtxCancel ==
    /\ Provisioned
    /\ ~ctxDone
    /\ ctxDone' = TRUE
    /\ UNCHANGED <<othervars, spc, cfgvars, fs, dbvars, lockvars, cache, now, lvars, uvars>>

\* ------------------------------------------------------------ Cleanup
\* Mutant: Cleanup closes the reader and leaves it in the field.
Cleanup_KeepsField ==
    /\ upc # "new"
    /\ ~(ucaller = "provision" /\ upc # "failed")
    /\ CanLock
    /\ dbReader # NilReader
    /\ readers[dbReader].closes < 2
    /\ readers' = CloseReader(readers, dbReader)
    /\ UNCHANGED <<othervars, spc, cfgvars, fs, dbReader, installed, lockvars, cache,
                   now, ctxDone, lvars, uvars>>

\* Lines 497-507: under the write lock, close the live reader if there is
\* one and clear the field.  Callable once Provision has returned.
Cleanup ==
    /\ upc # "new"
    /\ ~(ucaller = "provision" /\ upc # "failed")
    /\ CanLock
    /\ IF dbReader # NilReader
       THEN /\ readers' = CloseReader(readers, dbReader)
            /\ dbReader' = NilReader
       ELSE UNCHANGED <<readers, dbReader>>
    /\ UNCHANGED <<othervars, spc, cfgvars, fs, installed, lockvars, cache, now, ctxDone,
                   lvars, uvars>>

\* ------------------------------------------------------------ Provision, loadDatabase
\* m.dbReader = r under m.lock, recorded in the history variables.
Install(r) ==
    /\ dbReader' = r
    /\ installed' = installed \cup {r}
    /\ lfresh' = [l \in Lookers |-> FALSE]

\* Provision up to its call of loadDatabase (line 189).
Provision ==
    /\ upc = "new"
    /\ upc' = "ld_open"
    /\ UNCHANGED <<othervars, spc, cfgvars, fs, dbvars, lockvars, cache, now, ctxDone, lvars,
                   ucaller, uold, unew, uret, usnap>>

\* loadDatabase lines 199-208: try the cached file first.
LD_Open ==
    /\ upc = "ld_open"
    /\ \E o \in OpenOutcomes(Live) :
         IF o = "ok"
         THEN /\ readers' = OpenReader(readers, NextId, Live)
              /\ unew' = NextId
              /\ upc' = "ld_assign"
         ELSE /\ upc' = "ld_fetch"
              /\ UNCHANGED <<readers, unew>>
    /\ UNCHANGED <<othervars, spc, cfgvars, fs, dbReader, installed, lockvars, cache, now,
                   ctxDone, lvars, ucaller, uold, uret, usnap>>

\* copyFile(m.Source, m.localFile): os.Create truncates the destination, so a
\* copy onto the source path itself leaves it empty; a failed copy may leave a
\* partial destination.
CopyOutcomes(f, dst) ==
    IF dst = "source"
    THEN {[err |-> FALSE, files |-> [f EXCEPT !["source"] = Bad]], [err |-> TRUE, files |-> f]}
    ELSE {[err |-> FALSE, files |-> [f EXCEPT ![dst] = f["source"]]],
          [err |-> TRUE, files |-> f],
          [err |-> TRUE, files |-> [f EXCEPT ![dst] = Bad]]}

\* loadDatabase lines 210-226: fetch from the source, straight to m.localFile.
LD_Fetch ==
    /\ upc = "ld_fetch"
    /\ IF IsHTTP
       THEN \E d \in DownloadOutcomes :
              /\ fs' = IF d.wrote THEN [fs EXCEPT ![localFile] = d.body] ELSE fs
              /\ IF d.err
                 THEN uret' = "err_download" /\ upc' = "ret"
                 ELSE uret' = uret /\ upc' = "ld_open2"
              /\ UNCHANGED localFile
       ELSE IF fs["source"] = Absent
            THEN /\ uret' = "err_nofile"
                 /\ upc' = "ret"
                 /\ UNCHANGED <<fs, localFile>>
            ELSE \E c \in CopyOutcomes(fs, localFile) :
                   /\ fs' = c.files
                   /\ localFile' = IF c.err THEN "source" ELSE localFile
                   /\ upc' = "ld_open2"
                   /\ uret' = uret
    /\ UNCHANGED <<othervars, spc, source, dbvars, lockvars, cache, now, ctxDone, lvars,
                   ucaller, uold, unew, usnap>>

\* loadDatabase lines 228-232: open what is now at m.localFile.
LD_Open2 ==
    /\ upc = "ld_open2"
    /\ \E o \in OpenOutcomes(Live) :
         IF o = "ok"
         THEN /\ readers' = OpenReader(readers, NextId, Live)
              /\ unew' = NextId
              /\ upc' = "ld_assign"
              /\ uret' = uret
         ELSE /\ uret' = "err_open"
              /\ upc' = "ret"
              /\ UNCHANGED <<readers, unew>>
    /\ UNCHANGED <<othervars, spc, cfgvars, fs, dbReader, installed, lockvars, cache, now,
                   ctxDone, lvars, ucaller, uold, usnap>>

\* loadDatabase lines 201-203 and 234-236: Lock; m.dbReader = reader; Unlock;
\* return nil.  The reader held before is not touched.
LD_Assign ==
    /\ upc = "ld_assign"
    /\ CanLock
    /\ Install(unew)
    /\ uret' = "ok"
    /\ upc' = "ret"
    /\ UNCHANGED <<othervars, spc, cfgvars, fs, readers, lockvars, cache, now, ctxDone, lcall,
                   ucaller, uold, unew, usnap>>

\* Mutant: periodicUpdate gives up after an error.
U_Return_StopsOnError ==
    /\ upc = "ret"
    /\ IF ucaller = "provision" /\ uret # "ok"
       THEN upc' = "failed" /\ ucaller' = ucaller
       ELSE IF uret \in {"ok", "noop"}
            THEN upc' = "wait" /\ ucaller' = "none"
            ELSE upc' = "exit" /\ ucaller' = "none"
    /\ uret' = "none"
    /\ uold' = NilReader
    /\ unew' = NilReader
    /\ usnap' = NilReader
    /\ UNCHANGED <<othervars, spc, cfgvars, fs, dbvars, lockvars, cache, now, ctxDone, lvars>>

\* The caller takes the result: Provision fails on an error and otherwise
\* starts periodicUpdate; periodicUpdate logs an error and loops.
U_Return ==
    /\ upc = "ret"
    /\ IF ucaller = "provision" /\ uret # "ok"
       THEN upc' = "failed" /\ ucaller' = ucaller
       ELSE upc' = "wait" /\ ucaller' = "none"
    /\ uret' = "none"
    /\ uold' = NilReader
    /\ unew' = NilReader
    /\ usnap' = NilReader
    /\ UNCHANGED <<othervars, spc, cfgvars, fs, dbvars, lockvars, cache, now, ctxDone, lvars>>

\* ------------------------------------------------------------ periodicUpdate
\* Mutant: the tick takes m.lock before the check and the download.
U_Tick_LocksFirst ==
    /\ upc = "wait"
    /\ CanLock
    /\ lockW' = "updater"
    /\ ucaller' = "tick"
    /\ usnap' = dbReader
    /\ \E head \in {"error", "status", "ok"}, lm \in {"none", "unparsable", "newer", "notnewer"},
          elapsed \in BOOLEAN :
         LET d == CheckNeedUpdate(IsHTTP, Live # Absent, head, lm, elapsed)
         IN IF d.err THEN uret' = "err_check" /\ upc' = "ret"
            ELSE IF d.need THEN Opened < MaxReaders /\ uret' = "none" /\ upc' = "download"
            ELSE uret' = "noop" /\ upc' = "ret"
    /\ UNCHANGED <<othervars, spc, cfgvars, fs, dbvars, lockR, cache, now, ctxDone, lvars,
                   uold, unew>>

\* A tick: checkNeedUpdate, then updateGeoFile if it says so.
U_Tick ==
    /\ upc = "wait"
    /\ ucaller' = "tick"
    /\ usnap' = dbReader
    /\ \E head \in {"error", "status", "ok"}, lm \in {"none", "unparsable", "newer", "notnewer"},
          elapsed \in BOOLEAN :
         LET d == CheckNeedUpdate(IsHTTP, Live # Absent, head, lm, elapsed)
         IN IF d.err THEN uret' = "err_check" /\ upc' = "ret"
            ELSE IF d.need THEN Opened < MaxReaders /\ uret' = "none" /\ upc' = "download"
            ELSE uret' = "noop" /\ upc' = "ret"
    /\ UNCHANGED <<othervars, spc, cfgvars, fs, dbvars, lockvars, cache, now, ctxDone, lvars,
                   uold, unew>>

\* updateGeoFile entered directly (lines 396-400): a non-HTTP source goes to
\* loadDatabase.
UpdateGeoFileCall ==
    /\ upc = "wait"
    /\ Opened < MaxReaders
    /\ ucaller' = "direct"
    /\ usnap' = dbReader
    /\ upc' = IF IsHTTP THEN "download" ELSE "ld_open"
    /\ UNCHANGED <<othervars, spc, cfgvars, fs, dbvars, lockvars, cache, now, ctxDone, lvars,
                   uold, unew, uret>>

\* Line 403: downloadFile(tempFile).
U_Download ==
    /\ upc = "download"
    /\ \E d \in DownloadOutcomes :
         /\ fs' = IF d.wrote THEN [fs EXCEPT !["temp"] = d.body] ELSE fs
         /\ upc' = IF d.err THEN "dl_err" ELSE "validate"
    /\ UNCHANGED <<othervars, spc, cfgvars, dbvars, lockvars, cache, now, ctxDone, lvars,
                   ucaller, uold, unew, uret, usnap>>

\* Mutant: the failed download's temp file is left behind.
U_DownloadFailed_KeepsTemp ==
    /\ upc = "dl_err"
    /\ uret' = "err_download"
    /\ upc' = "ret"
    /\ UNCHANGED <<othervars, spc, cfgvars, fs, dbvars, lockvars, cache, now, ctxDone, lvars,
                   ucaller, uold, unew, usnap>>

\* Lines 404-405: the download failed.
U_DownloadFailed ==
    /\ upc = "dl_err"
    /\ fs' = Removed(fs, "temp")
    /\ uret' = "err_download"
    /\ upc' = "ret"
    /\ UNCHANGED <<othervars, spc, cfgvars, dbvars, lockvars, cache, now, ctxDone, lvars,
                   ucaller, uold, unew, usnap>>

\* Lines 409-414: open the temp file to validate it; the validation reader is
\* closed at once and never installed.
U_Validate ==
    /\ upc = "validate"
    /\ \E o \in OpenOutcomes(fs["temp"]) :
         IF o = "ok"
         THEN upc' = "lock" /\ UNCHANGED <<fs, uret>>
         ELSE fs' = Removed(fs, "temp") /\ uret' = "err_invalid" /\ upc' = "ret"
    /\ UNCHANGED <<othervars, spc, cfgvars, dbvars, lockvars, cache, now, ctxDone, lvars,
                   ucaller, uold, unew, usnap>>

\* Mutant: the old reader is closed as soon as the lock is taken, before the
\* rename and the reopen (the order of the legacy CNGeoIP.updateGeoFile).
U_Lock_ClosesOldFirst ==
    /\ upc = "lock"
    /\ CanLock
    /\ lockW' = "updater"
    /\ uold' = dbReader
    /\ readers' = IF dbReader # NilReader THEN CloseReader(readers, dbReader) ELSE readers
    /\ upc' = "rename"
    /\ UNCHANGED <<othervars, spc, cfgvars, fs, dbReader, installed, lockR, cache, now, ctxDone, lvars,
                   ucaller, unew, uret, usnap>>

\* Lines 416-419: m.lock.Lock(); oldReader := m.dbReader.
U_Lock ==
    /\ upc = "lock"
    /\ CanLock
    /\ lockW' = "updater"
    /\ uold' = dbReader
    /\ upc' = "rename"
    /\ UNCHANGED <<othervars, spc, cfgvars, fs, dbvars, lockR, cache, now, ctxDone, lvars,
                   ucaller, unew, uret, usnap>>

\* Mutant: the failed rename returns with m.lock still held.
U_Rename_KeepsLockOnFailure ==
    /\ upc = "rename"
    /\ \E ok \in BOOLEAN :
         IF ok
         THEN fs' = Renamed(fs, "temp", localFile) /\ upc' = "open" /\ uret' = uret
         ELSE fs' = Removed(fs, "temp") /\ uret' = "err_rename" /\ upc' = "ret"
    /\ UNCHANGED <<othervars, spc, cfgvars, dbvars, lockvars, cache, now, ctxDone, lvars,
                   ucaller, uold, unew, usnap>>

\* Lines 421-424: os.Rename(tempFile, m.localFile).
U_Rename ==
    /\ upc = "rename"
    /\ \E ok \in BOOLEAN :
         IF ok
         THEN fs' = Renamed(fs, "temp", localFile) /\ upc' = "open" /\ uret' = uret
         ELSE fs' = Removed(fs, "temp") /\ uret' = "err_rename" /\ upc' = "unlock"
    /\ UNCHANGED <<othervars, spc, cfgvars, dbvars, lockvars, cache, now, ctxDone, lvars,
                   ucaller, uold, unew, usnap>>

\* Lines 426-431: geoip2.Open(m.localFile); m.dbReader = newReader.
U_Open ==
    /\ upc = "open"
    /\ \E o \in OpenOutcomes(Live) :
         IF o = "ok"
         THEN /\ readers' = OpenReader(readers, NextId, Live)
              /\ unew' = NextId
              /\ Install(NextId)
              /\ upc' = "close"
              /\ uret' = uret
         ELSE /\ uret' = "err_open"
              /\ upc' = "unlock"
              /\ UNCHANGED <<dbvars, unew, lfresh>>
    /\ UNCHANGED <<othervars, spc, cfgvars, fs, lockvars, cache, now, ctxDone, lcall,
                   ucaller, uold, usnap>>

\* Lines 433-438: oldReader.Close() if there was one; return nil.
U_CloseOld ==
    /\ upc = "close"
    /\ readers' = IF uold # NilReader THEN CloseReader(readers, uold) ELSE readers
    /\ uret' = "ok"
    /\ upc' = "unlock"
    /\ UNCHANGED <<othervars, spc, cfgvars, fs, dbReader, installed, lockvars, cache, now,
                   ctxDone, lvars, ucaller, uold, unew, usnap>>

\* Line 417: the deferred m.lock.Unlock() as updateGeoFile returns.
U_Unlock ==
    /\ upc = "unlock"
    /\ lockW' = "none"
    /\ upc' = "ret"
    /\ UNCHANGED <<othervars, spc, cfgvars, fs, dbvars, lockR, cache, now, ctxDone, lvars,
                   ucaller, uold, unew, uret, usnap>>

\* Lines 491-492: <-m.ctx.Done().
U_Exit ==
    /\ upc = "wait"
    /\ ctxDone
    /\ upc' = "exit"
    /\ UNCHANGED <<othervars, spc, cfgvars, fs, dbvars, lockvars, cache, now, ctxDone, lvars,
                   ucaller, uold, unew, uret, usnap>>

\* ------------------------------------------------------------ specification
Next ==
    \/ \E l \in Lookers, h \in Hosts : L_Start(l, h)
    \/ \E l \in Lookers : L_RLock(l)
    \/ \E l \in Lookers : L_Query(l)
    \/ \E l \in Lookers : L_Return(l)
    \/ CacheSweep
    \/ SweepExit
    \/ AdvanceTime
    \/ CtxCancel
    \/ Cleanup
    \/ Provision
    \/ LD_Open
    \/ LD_Fetch
    \/ LD_Open2
    \/ LD_Assign
    \/ U_Return
    \/ U_Tick
    \/ UpdateGeoFileCall
    \/ U_Download
    \/ U_DownloadFailed
    \/ U_Validate
    \/ U_Lock
    \/ U_Rename
    \/ U_Open
    \/ U_CloseOld
    \/ U_Unlock
    \/ U_Exit

Spec == Init /\ [][Next]_vars

\* A step of Provision, loadDatabase or updateGeoFile, or the caller taking
\* the result: code that runs to its end once started (the HTTP calls carry a
\* timeout, Lock is granted once the readers it waits for have left).
UpdaterStep ==
    \/ LD_Open \/ LD_Fetch \/ LD_Open2 \/ LD_Assign \/ U_Return
    \/ U_Download \/ U_DownloadFailed \/ U_Validate \/ U_Lock \/ U_Rename
    \/ U_Open \/ U_CloseOld \/ U_Unlock

\* The rest of a validSource call that holds the read lock.
LookupStep(l) == L_Query(l) \/ L_Return(l)

\* Fair scheduling: goroutines that can run do run, and a select whose
\* ctx.Done() case is ready again and again takes it in the end.
FairSpec ==
    /\ Spec
    /\ WF_vars(UpdaterStep)
    /\ \A l \in Lookers : WF_vars(LookupStep(l))
    /\ SF_vars(U_Exit)
    /\ WF_vars(SweepExit)

\* sync.RWMutex hands the read lock to the RLock calls that were blocked when
\* the writer unlocks: a lookup that can take the read lock again and again
\* does take it, whatever the updater does in between.
LockSpec ==
    /\ Spec
    /\ WF_vars(UpdaterStep)
    /\ \A l \in Lookers : WF_vars(LookupStep(l))
    /\ \A l \in Lookers : SF_vars(L_RLock(l))

\* ------------------------------------------------------------ the legacy matcher
\* CNGeoIP (the matcher before GeoCN) on the state of the matcher above: no
\* result cache, and its own validSource, tick and updateGeoFile.  Download,
\* validation, rename and the deferred Unlock are as in GeoCN.updateGeoFile.
\* validSource: RLock, then m.dbReader.Country(ip) with no nil check.
V_RLock(l, h) ==
    /\ lpc[l] = "idle"
    /\ CanRLock
    /\ lockR' = lockR \cup {l}
    /\ lhost' = [lhost EXCEPT ![l] = h]
    /\ lreader' = [lreader EXCEPT ![l] = dbReader]
    /\ lpc' = [lpc EXCEPT ![l] = "query"]
    /\ UNCHANGED <<othervars, spc, cfgvars, fs, dbvars, lockW, cache, now, ctxDone,
                   lver, lfresh, uvars, lres, lsrc>>

\* Country on the reader read under the lock: a nil reader panics, a closed
\* one answers with an error, an open one with the record.
V_Query(l) ==
    /\ lpc[l] = "query"
    /\ LET r == lreader[l]
       IN /\ lsrc' = [lsrc EXCEPT ![l] = IF r = NilReader THEN "panic"
                                         ELSE IF readers[r].st = "open" THEN "db"
                                         ELSE "err"]
          /\ lres' = [lres EXCEPT ![l] = /\ r # NilReader
                                         /\ readers[r].st = "open"
                                         /\ Country(readers[r].ver, lhost[l]) = "CN"]
    /\ lpc' = [lpc EXCEPT ![l] = "ret"]
    /\ UNCHANGED <<othervars, spc, cfgvars, fs, dbvars, lockvars, cache, now, ctxDone,
                   lhost, lreader, lver, lfresh, uvars>>

\* A tick of periodicUpdate: checkNeedUpdate answers true (the file is
\* missing or older than 12 hours, or the HEAD probe says 200) or fails.
\* The ticks end once a reader has been closed twice.
V_Tick ==
    /\ upc = "wait"
    /\ \A r \in ReaderIds : readers[r].closes < 2
    /\ ucaller' = "tick"
    /\ usnap' = dbReader
    /\ \E need \in BOOLEAN :
         IF need THEN Opened < MaxReaders /\ uret' = "none" /\ upc' = "download"
         ELSE uret' = "err_check" /\ upc' = "ret"
    /\ UNCHANGED <<othervars, spc, cfgvars, fs, dbvars, lockvars, cache, now, ctxDone, lvars,
                   uold, unew>>

\* updateGeoFile: m.lock.Lock(), then the old reader is closed at once.
V_Lock ==
    /\ upc = "lock"
    /\ CanLock
    /\ lockW' = "updater"
    /\ uold' = dbReader
    /\ readers' = IF dbReader # NilReader THEN CloseReader(readers, dbReader) ELSE readers
    /\ upc' = "rename"
    /\ UNCHANGED <<othervars, spc, cfgvars, fs, dbReader, installed, lockR, cache, now, ctxDone,
                   lvars, ucaller, unew, uret, usnap>>

\* m.dbReader, err = geoip2.Open(m.GeoFile): the field takes the result, which
\* is nil when the open fails.
V_Open ==
    /\ upc = "open"
    /\ \E o \in OpenOutcomes(Live) :
         IF o = "ok"
         THEN /\ readers' = OpenReader(readers, NextId, Live)
              /\ unew' = NextId
              /\ Install(NextId)
              /\ uret' = "ok"
         ELSE /\ dbReader' = NilReader
              /\ uret' = "err_open"
              /\ UNCHANGED <<readers, installed, unew, lfresh>>
    /\ upc' = "unlock"
    /\ UNCHANGED <<othervars, spc, cfgvars, fs, lockvars, cache, now, ctxDone, lcall,
                   ucaller, uold, usnap>>

\* Provision has returned: the existing file was opened and periodicUpdate
\* waits for its first tick.
LegacyInit ==
    /\ source = "http"
    /\ localFile = "cache"
    /\ fs = [p \in {"cache", "temp", "source"} |-> IF p = "cache" THEN "v1" ELSE Absent]
    /\ dbReader = 1
    /\ readers = [r \in ReaderIds |->
                    IF r = 1 THEN [st |-> "open", ver |-> "v1", closes |-> 0]
                    ELSE [st |-> "unopened", ver |-> Absent, closes |-> 0]]
    /\ lockW = "none"
    /\ lockR = {}
    /\ cache = EmptyCache
    /\ now = 0
    /\ ctxDone = FALSE
    /\ lpc = NoLookup
    /\ lhost = [l \in Lookers |-> "h1"]
    /\ lreader = [l \in Lookers |-> NilReader]
    /\ lres = [l \in Lookers |-> FALSE]
    /\ lsrc = [l \in Lookers |-> "none"]
    /\ lver = [l \in Lookers |-> Absent]
    /\ lfresh = [l \in Lookers |-> FALSE]
    /\ upc = "wait"
    /\ ucaller = "none"
    /\ uold = NilReader
    /\ unew = NilReader
    /\ uret = "none"
    /\ usnap = NilReader
    /\ installed = {1}
    /\ spc = "run"
    /\ OthersIdle

LegacyNext ==
    \/ \E l \in Lookers, h \in Hosts : V_RLock(l, h)
    \/ \E l \in Lookers : V_Query(l)
    \/ \E l \in Lookers : L_Return(l)
    \/ V_Tick
    \/ U_Download
    \/ U_DownloadFailed
    \/ U_Validate
    \/ V_Lock
    \/ U_Rename
    \/ V_Open
    \/ U_Unlock
    \/ U_Return

LegacySpec == LegacyInit /\ [][LegacyNext]_vars

\* ------------------------------------------------------------ the freshness check model
\* One call of checkNeedUpdate on what it meets.
Q_Call(in) ==
    /\ chk.st = "idle"
    /\ LET r == CheckNeedUpdateOf(in)
       IN chk' = [st |-> "done", in |-> in, need |-> r.need, err |-> r.err]
    /\ UNCHANGED <<geocnvars, kvars, cityvars>>

\* The caller has taken the result.
Q_Done ==
    /\ chk.st = "done"
    /\ chk' = NoCheck
    /\ UNCHANGED <<geocnvars, kvars, cityvars>>

QInit ==
    /\ GeoCNIdle
    /\ OthersIdle

QNext ==
    \/ \E in \in ChkInputs : Q_Call(in)
    \/ Q_Done

CheckSpec == QInit /\ [][QNext]_vars

\* ------------------------------------------------------------ the cache model
\* Get(key).  A hit counts as an access of the entry.
K_Get(k) ==
    /\ LET r == KGet(kentries, k, know)
       IN /\ kop' = [op |-> "get", key |-> k, found |-> r.found, value |-> r.value]
          /\ kacc' = IF r.found THEN [kacc EXCEPT ![k] = know] ELSE kacc
    /\ UNCHANGED <<geocnvars, chk, cityvars, kkind, kentries, know, klast>>

\* Set(key, value).
K_Set(k, v) ==
    /\ \E c \in KSet(kkind, kentries, k, [value |-> v, ts |-> know]) :
         /\ kentries' = c
         /\ klast' = [j \in Keys |->
                        IF j = k THEN [set |-> TRUE, t |-> know, v |-> v, ev |-> FALSE]
                        ELSE IF j \in DOMAIN kentries /\ j \notin DOMAIN c
                             THEN [klast[j] EXCEPT !.ev = TRUE]
                             ELSE klast[j]]
         /\ kacc' = [j \in Keys |-> IF j = k THEN know
                                    ELSE IF j \in DOMAIN c THEN kacc[j] ELSE 0]
    /\ kop' = [op |-> "set", key |-> k, found |-> k \in DOMAIN kentries, value |-> v]
    /\ UNCHANGED <<geocnvars, chk, cityvars, kkind, know>>

\* One tick of the sweep.
K_Sweep ==
    /\ kentries' = KSwept(kentries, know)
    /\ kacc' = [j \in Keys |-> IF j \in DOMAIN kentries' THEN kacc[j] ELSE 0]
    /\ kop' = [NoOp EXCEPT !.op = "sweep"]
    /\ UNCHANGED <<geocnvars, chk, cityvars, kkind, know, klast>>

\* Time passes.
K_Tick ==
    /\ know < KMaxTime
    /\ know' = know + 1
    /\ kop' = [NoOp EXCEPT !.op = "tick"]
    /\ UNCHANGED <<geocnvars, chk, cityvars, kkind, kentries, klast, kacc>>

KInit ==
    /\ GeoCNIdle
    /\ chk = NoCheck
    /\ geocity = NoCity
    /\ geocn = NoCN
    /\ loc = NoLoc
    /\ req = NoReq
    /\ duo = NoDuo
    /\ task = NoTask
    /\ det = NoDet
    /\ kkind \in {"generic", "ip"}
    /\ KNew

KNext ==
    \/ \E k \in Keys : K_Get(k)
    \/ \E k \in Keys, v \in KValues : K_Set(k, v)
    \/ K_Sweep
    \/ K_Tick

CacheSpec == KInit /\ [][KNext]_vars

\* ------------------------------------------------------------ the lookup model
\* One call of matchLocation.  The answer is recorded when a searcher gave it;
\* an address that is skipped meets none.
G_MatchLocation(ip, ans) ==
    /\ geocity.provisioned
    /\ loc.st = "idle"
    /\ (ip = NilIP \/ checkPrivateIP(ip)) => ans = NoLoc.ans
    /\ LET r == MatchLocation(geocity, ip, ans)
       IN /\ loc' = [st |-> "done", ip |-> ip,
                     ans |-> IF r.searched = "none" THEN NoLoc.ans ELSE ans,
                     matched |-> r.matched, searched |-> r.searched,
                     cread |-> r.cread, hit |-> r.hit, cwrite |-> r.cwrite]
          /\ geocity' = [geocity EXCEPT !.entries = r.entries]
    /\ UNCHANGED <<geocnvars, kvars, chk, duo, task, det, geocn, req>>

\* One call of validSource.
N_ValidSource(host, ans) ==
    /\ geocn.provisioned
    /\ loc.st = "idle"
    /\ (host = "" \/ ParseIP(host) = NilIP \/ checkPrivateIP(ParseIP(host)))
          => ans = [err |-> TRUE, country |-> ""]
    /\ LET r == ValidSource(geocn, host, ans)
       IN /\ loc' = [st |-> "done", ip |-> host,
                     ans |-> IF r.searched = "none" THEN [err |-> TRUE, country |-> ""] ELSE ans,
                     matched |-> r.matched, searched |-> r.searched,
                     cread |-> r.cread, hit |-> r.hit, cwrite |-> r.cwrite]
          /\ geocn' = [geocn EXCEPT !.entries = r.entries]
    /\ UNCHANGED <<geocnvars, kvars, chk, duo, task, det, geocity, req>>

\* The caller has taken the verdict.
G_Done ==
    /\ loc.st = "done"
    /\ loc' = NoLoc
    /\ UNCHANGED <<geocnvars, kvars, chk, duo, task, det, geocity, geocn, req>>

\* GeoCity.Cleanup, between two lookups: both searchers are closed and set
\* to nil.
G_Cleanup ==
    /\ loc.st = "idle"
    /\ geocity.searcherIPv4 \/ geocity.searcherIPv6
    /\ geocity' = [geocity EXCEPT !.searcherIPv4 = FALSE, !.searcherIPv6 = FALSE]
    /\ UNCHANGED <<geocnvars, kvars, chk, duo, task, det, geocn, loc, req>>

\* GeoCN.Cleanup, between two lookups: the reader is closed and set to nil.
N_Cleanup ==
    /\ loc.st = "idle"
    /\ geocn.dbReader
    /\ geocn' = [geocn EXCEPT !.dbReader = FALSE]
    /\ UNCHANGED <<geocnvars, kvars, chk, duo, task, det, geocity, loc, req>>

\* The ttl of an entry passes and the sweep deletes it.
G_Expire(k) ==
    /\ loc.st = "idle"
    /\ \/ /\ k \in DOMAIN geocity.entries
          /\ geocity' = [geocity EXCEPT
                           !.entries = [j \in DOMAIN geocity.entries \ {k} |-> geocity.entries[j]]]
          /\ UNCHANGED geocn
       \/ /\ k \in DOMAIN geocn.entries
          /\ geocn' = [geocn EXCEPT
                         !.entries = [j \in DOMAIN geocn.entries \ {k} |-> geocn.entries[j]]]
          /\ UNCHANGED geocity
    /\ UNCHANGED <<geocnvars, kvars, chk, duo, task, det, loc, req>>

\* One matcher of either kind has been provisioned.
GInit ==
    /\ GeoCNIdle
    /\ kkind = "generic"
    /\ KNew
    /\ chk = NoCheck
    /\ \/ geocity \in CityConfigs /\ geocn = NoCN
       \/ geocity = NoCity /\ geocn \in CNConfigs
    /\ loc = NoLoc
    /\ req = NoReq
    /\ duo = NoDuo
    /\ task = NoTask
    /\ det = NoDet

GNext ==
    \/ \E ip \in IPs \cup {NilIP}, ans \in Answers : G_MatchLocation(ip, ans)
    \/ \E host \in IPs \cup {"", "bad"}, ans \in CountryAnswers : N_ValidSource(host, ans)
    \/ G_Done
    \/ G_Cleanup
    \/ N_Cleanup
    \/ \E k \in IPs : G_Expire(k)

LookupSpec == GInit /\ [][GNext]_vars

\* ------------------------------------------------------------ the request model
\* Match is called with a request.
M_Begin(r, db) ==
    /\ req.st = "idle"
    /\ req' = [NoReq EXCEPT !.st = "remote", !.r = r, !.db = db]
    /\ UNCHANGED <<geocnvars, kvars, chk, duo, task, det, geocity, geocn, loc>>

\* Mutant: a first X-Forwarded-For entry that does not match lets X-Real-IP
\* decide.
M_Look_FallsThrough ==
    /\ req.st \in {"remote", "xff", "xri"}
    /\ LET src == req.st
           raw == CASE src = "remote" -> req.r.remote
                    [] src = "xff" -> Split(req.r.xff, ",")[1]
                    [] src = "xri" -> req.r.xri
           present == CASE src = "remote" -> TRUE
                        [] src = "xff" -> req.r.xff # <<>>
                        [] src = "xri" -> req.r.xri # <<>>
           next == CASE src = "remote" -> "xff" [] src = "xff" -> "xri" [] src = "xri" -> "done"
           after(matched) == IF src # "xri" /\ ~matched THEN next ELSE "done"
       IN \/ /\ geocn.provisioned
             /\ LET host == Str(IF src = "remote" THEN getHost(raw) ELSE TrimSpace(raw))
                    l == ValidSource(geocn, host,
                                     IF host \in DOMAIN req.db THEN req.db[host]
                                     ELSE [err |-> TRUE, country |-> ""])
                IN IF present /\ host # ""
                   THEN /\ geocn' = [geocn EXCEPT !.entries = l.entries]
                        /\ req' = [req EXCEPT
                                     !.st = after(l.matched),
                                     !.result = l.matched,
                                     !.seen = @ \o <<[src |-> src, key |-> host,
                                                      matched |-> l.matched]>>]
                   ELSE /\ geocn' = geocn
                        /\ req' = [req EXCEPT !.st = next]
             /\ UNCHANGED geocity
          \/ /\ geocity.provisioned
             /\ LET ip == ParseIP(Str(getHost(raw)))
                    l == MatchLocation(geocity, ip,
                                       IF IPString(ip) \in DOMAIN req.db
                                       THEN req.db[IPString(ip)] ELSE NoLoc.ans)
                IN IF present /\ ip # NilIP
                   THEN /\ geocity' = [geocity EXCEPT !.entries = l.entries]
                        /\ req' = [req EXCEPT
                                     !.st = after(l.matched),
                                     !.result = l.matched,
                                     !.seen = @ \o <<[src |-> src, key |-> ip,
                                                      matched |-> l.matched]>>]
                   ELSE /\ geocity' = geocity
                        /\ req' = [req EXCEPT !.st = next]
             /\ UNCHANGED geocn
    /\ UNCHANGED <<geocnvars, kvars, chk, duo, task, det, loc>>

\* Match reaches its next source: RemoteAddr, then the first entry of
\* X-Forwarded-For, then X-Real-IP.  GeoCN.Match looks a source up when its
\* string is not empty (getHost for RemoteAddr, TrimSpace for the headers);
\* GeoCity.Match when getIP parses it.  A match of RemoteAddr and the verdict
\* of a header that was looked up are returned; a RemoteAddr that does not
\* match, and a source that is not looked up, lead to the next source.
M_Look ==
    /\ req.st \in {"remote", "xff", "xri"}
    /\ LET src == req.st
           raw == CASE src = "remote" -> req.r.remote
                    [] src = "xff" -> Split(req.r.xff, ",")[1]
                    [] src = "xri" -> req.r.xri
           present == CASE src = "remote" -> TRUE
                        [] src = "xff" -> req.r.xff # <<>>
                        [] src = "xri" -> req.r.xri # <<>>
           next == CASE src = "remote" -> "xff" [] src = "xff" -> "xri" [] src = "xri" -> "done"
           after(matched) == IF src = "remote" /\ ~matched THEN next ELSE "done"
       IN \/ /\ geocn.provisioned
             /\ LET host == Str(IF src = "remote" THEN getHost(raw) ELSE TrimSpace(raw))
                    l == ValidSource(geocn, host,
                                     IF host \in DOMAIN req.db THEN req.db[host]
                                     ELSE [err |-> TRUE, country |-> ""])
                IN IF present /\ host # ""
                   THEN /\ geocn' = [geocn EXCEPT !.entries = l.entries]
                        /\ req' = [req EXCEPT
                                     !.st = after(l.matched),
                                     !.result = l.matched,
                                     !.seen = @ \o <<[src |-> src, key |-> host,
                                                      matched |-> l.matched]>>]
                   ELSE /\ geocn' = geocn
                        /\ req' = [req EXCEPT !.st = next]
             /\ UNCHANGED geocity
          \/ /\ geocity.provisioned
             /\ LET ip == ParseIP(Str(getHost(raw)))
                    l == MatchLocation(geocity, ip,
                                       IF IPString(ip) \in DOMAIN req.db
                                       THEN req.db[IPString(ip)] ELSE NoLoc.ans)
                IN IF present /\ ip # NilIP
                   THEN /\ geocity' = [geocity EXCEPT !.entries = l.entries]
                        /\ req' = [req EXCEPT
                                     !.st = after(l.matched),
                                     !.result = l.matched,
                                     !.seen = @ \o <<[src |-> src, key |-> ip,
                                                      matched |-> l.matched]>>]
                   ELSE /\ geocity' = geocity
                        /\ req' = [req EXCEPT !.st = next]
             /\ UNCHANGED geocn
    /\ UNCHANGED <<geocnvars, kvars, chk, duo, task, det, loc>>

\* Match has returned req.result; the handler chain takes it.
M_Done ==
    /\ req.st = "done"
    /\ req' = NoReq
    /\ UNCHANGED <<geocnvars, kvars, chk, duo, task, det, geocity, geocn, loc>>

\* One matcher of either kind has been provisioned; a GeoCity has no keywords.
MInit ==
    /\ GInit
    /\ geocity.Provinces = {}
    /\ geocity.Cities = {}

MNext ==
    \/ \E r \in Requests :
         \E db \in DBs(IF geocn.provisioned THEN "geocn" ELSE "geocity") : M_Begin(r, db)
    \/ M_Look
    \/ M_Done
    \/ req.st = "idle" /\ G_Cleanup
    \/ req.st = "idle" /\ N_Cleanup
    \/ \E k \in IPs : req.st = "idle" /\ G_Expire(k)

MatchSpec == MInit /\ [][MNext]_vars

\* ------------------------------------------------------------ the Provision model
\* Provision of the matcher that is configured: the defaults are filled in,
\* the cache is made when enabled, and the databases load.
P_Provision ==
    /\ \/ /\ "EnableCache" \in DOMAIN geocn
          /\ ~geocn.provisioned
          /\ LET c == ProvisionCache(geocn.EnableCache, geocn.CacheMaxSize, geocn.CacheTTL)
             IN geocn' = [geocn EXCEPT
                            !.provisioned = TRUE, !.dbReader = TRUE, !.cacheOn = c.cacheOn,
                            !.EnableCache = c.EnableCache, !.CacheMaxSize = c.CacheMaxSize,
                            !.CacheTTL = c.CacheTTL]
          /\ UNCHANGED geocity
       \/ /\ "EnableCache" \in DOMAIN geocity
          /\ ~geocity.provisioned
          /\ LET c == ProvisionCache(geocity.EnableCache, geocity.CacheMaxSize,
                                     geocity.CacheTTL)
             IN geocity' = [geocity EXCEPT
                              !.provisioned = TRUE,
                              !.Mode = IF @ = "" THEN "allow" ELSE @,
                              !.searcherIPv4 = TRUE, !.searcherIPv6 = TRUE,
                              !.cacheOn = c.cacheOn,
                              !.EnableCache = c.EnableCache, !.CacheMaxSize = c.CacheMaxSize,
                              !.CacheTTL = c.CacheTTL]
          /\ UNCHANGED geocn
    /\ UNCHANGED <<geocnvars, kvars, chk, duo, task, det, loc, req>>

\* One matcher of either kind is configured and not yet provisioned.
PInit ==
    /\ GeoCNIdle
    /\ kkind = "generic"
    /\ KNew
    /\ chk = NoCheck
    /\ loc = NoLoc
    /\ req = NoReq
    /\ duo = NoDuo
    /\ task = NoTask
    /\ det = NoDet
    /\ \E c \in CacheConfigs :
         \/ /\ geocn = [k \in DOMAIN NoCN \cup DOMAIN c |->
                          IF k \in DOMAIN c THEN c[k] ELSE NoCN[k]]
            /\ geocity = NoCity
         \/ /\ geocn = NoCN
            /\ \E mode \in {"", "deny"} :
                 geocity = [k \in DOMAIN NoCity \cup DOMAIN c |->
                              IF k \in DOMAIN c THEN c[k]
                              ELSE IF k = "Mode" THEN mode ELSE NoCity[k]]

PNext ==
    \/ P_Provision
    \/ \E ip \in IPs \cup {NilIP}, ans \in Answers : G_MatchLocation(ip, ans)
    \/ \E host \in IPs \cup {"", "bad"}, ans \in CountryAnswers : N_ValidSource(host, ans)
    \/ G_Done
    \/ \E k \in IPs : G_Expire(k)

ProvisionSpec == PInit /\ [][PNext]_vars

\* ------------------------------------------------------------ the stream model
\* Provision up to its first call of loadDatabase.
T_Provision ==
    /\ task.kind # "none"
    /\ task.pc = "new"
    /\ task' = [task EXCEPT !.pc = "load", !.cur = 1]
    /\ UNCHANGED <<geocnvars, kvars, chk, geocity, geocn, loc, req, duo, det>>

\* Mutant: GeoCity.Provision fails as soon as one of the searchers is nil.
T_Load_NeedsEveryStream(o) ==
    /\ task.pc = "load"
    /\ LET s == Streams(task.kind)[task.cur]
           t == LoadDatabase(task, s, o)
           fails == IF task.kind = "geocn" THEN s \in t.failed
                    ELSE \E x \in DOMAIN t.searcher : t.searcher[x] = "nil"
       IN task' = IF task.kind # "geocn" /\ task.cur < Len(Streams(task.kind))
                  THEN [t EXCEPT !.cur = @ + 1]
                  ELSE IF fails
                       THEN [t EXCEPT !.pc = "failed", !.err = TRUE]
                       ELSE [t EXCEPT !.pc = "idle", !.started = @ + 1]
    /\ UNCHANGED <<geocnvars, kvars, chk, geocity, geocn, loc, req, duo, det>>

\* Provision from a call of loadDatabase on.  GeoCN.Provision returns the
\* error of its one call; GeoCity.Provision logs the error of a call, goes on
\* to the next stream, and fails when both searchers are nil.  A Provision
\* that does not fail starts periodicUpdate.
T_Load(o) ==
    /\ task.pc = "load"
    /\ LET s == Streams(task.kind)[task.cur]
           t == LoadDatabase(task, s, o)
           fails == IF task.kind = "geocn" THEN s \in t.failed
                    ELSE \A x \in DOMAIN t.searcher : t.searcher[x] = "nil"
       IN task' = IF task.kind # "geocn" /\ task.cur < Len(Streams(task.kind))
                  THEN [t EXCEPT !.cur = @ + 1]
                  ELSE IF fails
                       THEN [t EXCEPT !.pc = "failed", !.err = TRUE]
                       ELSE [t EXCEPT !.pc = "idle", !.started = @ + 1]
    /\ UNCHANGED <<geocnvars, kvars, chk, geocity, geocn, loc, req, duo, det>>

\* periodicUpdate takes a tick of its ticker.
T_Tick ==
    /\ task.pc = "idle"
    /\ task' = [task EXCEPT !.pc = "check", !.cur = 1, !.ticked = TRUE,
                            !.tried = {}, !.failed = {}]
    /\ UNCHANGED <<geocnvars, kvars, chk, geocity, geocn, loc, req, duo, det>>

\* The tick reaches a stream: a source that is not HTTP is passed over, else
\* checkNeedUpdate answers c: an error (logged), no, or yes.
T_Check(c) ==
    /\ task.pc = "check"
    /\ LET s == Streams(task.kind)[task.cur]
           last == task.cur = Len(Streams(task.kind))
           on == [task EXCEPT !.pc = IF last THEN "idle" ELSE "check",
                              !.cur = IF last THEN 1 ELSE @ + 1]
       IN IF task.src[s] # "http"
          THEN c = "no" /\ task' = on
          ELSE CASE c = "err" -> task' = [on EXCEPT !.tried = @ \cup {s},
                                                    !.failed = @ \cup {s}]
                 [] c = "no" -> task' = [on EXCEPT !.tried = @ \cup {s}]
                 [] c = "yes" -> task' = [task EXCEPT !.pc = "update",
                                                      !.tried = @ \cup {s}]
    /\ UNCHANGED <<geocnvars, kvars, chk, geocity, geocn, loc, req, duo, det>>

\* The tick updates the stream; an error is logged and the tick goes on.
T_Update(o) ==
    /\ task.pc = "update"
    /\ LET s == Streams(task.kind)[task.cur]
           last == task.cur = Len(Streams(task.kind))
           t == UpdateDatabase(task, s, o)
       IN task' = [t EXCEPT !.pc = IF last THEN "idle" ELSE "check",
                            !.cur = IF last THEN 1 ELSE @ + 1]
    /\ UNCHANGED <<geocnvars, kvars, chk, geocity, geocn, loc, req, duo, det>>

\* A matcher of either kind before Provision: every source an HTTP URL or a
\* local path, the cache files of an earlier run absent, invalid or valid.
TInit ==
    /\ GeoCNIdle
    /\ kkind = "generic"
    /\ KNew
    /\ chk = NoCheck
    /\ geocity = NoCity
    /\ geocn = NoCN
    /\ loc = NoLoc
    /\ req = NoReq
    /\ duo = NoDuo
    /\ det = NoDet
    /\ \E k \in {"geocn", "geocity"} :
         LET S == {Streams(k)[i] : i \in 1..Len(Streams(k))}
         IN \E src \in [S -> {"http", "local"}], file \in [S -> {Absent, Bad, "v1"}],
               origin \in [S -> {Absent, "v1"}] :
              /\ \A s \in S : src[s] = "http" => origin[s] = Absent
              /\ task = [NoTask EXCEPT !.kind = k, !.src = src, !.origin = origin,
                                       !.file = file,
                                       !.temp = [s \in S |-> Absent],
                                       !.searcher = [s \in S |-> "nil"]]

TNext ==
    \/ T_Provision
    \/ \E o \in [open1 : BOOLEAN, dl : DownloadOutcomes, copy : {"ok", "fail", "partial"},
                  open2 : BOOLEAN] : T_Load(o)
    \/ T_Tick
    \/ \E c \in {"err", "no", "yes"} : T_Check(c)
    \/ \E o \in [dl : DownloadOutcomes, valid : BOOLEAN, rename : BOOLEAN,
                  open2 : BOOLEAN] : T_Update(o)

StreamSpec == TInit /\ [][TNext]_vars

\* ------------------------------------------------------ the IP-version model
\* Both detectors are given one string: net.ParseIP and detectIPVersion on one
\* side, detectIPVersionFromString on the other.
I_Detect ==
    /\ det.pc = "idle"
    /\ det' = [det EXCEPT !.pc = "done",
                          !.fromString = detectIPVersionFromString(det.s),
                          !.fromIP = detectIPVersion(ParseIP(Str(det.s)))]
    /\ UNCHANGED <<geocnvars, kvars, chk, geocity, geocn, loc, req, duo, task>>

\* The strings: nothing, an address or a word, alone or followed by ":80" or
\* by ":" when its text has no colon, with or without a space on either side.
DetectInit ==
    /\ GeoCNIdle
    /\ kkind = "generic"
    /\ KNew
    /\ chk = NoCheck
    /\ geocity = NoCity
    /\ geocn = NoCN
    /\ loc = NoLoc
    /\ req = NoReq
    /\ duo = NoDuo
    /\ task = NoTask
    /\ \E body \in {<<>>} \cup {<<a>> : a \in IPs \cup {"x", "x:y:z"}},
          port \in {<<>>, <<":", "80">>, <<":">>},
          left \in {<<>>, <<" ">>}, right \in {<<>>, <<" ">>} :
         /\ port # <<>> => body \in {<<>>, <<"x">>} \cup {<<a>> : a \in {b \in IPs : To4_NotMapped(b)}}
         /\ det = [NoDet EXCEPT !.s = left \o body \o port \o right]

DetectSpec == DetectInit /\ [][I_Detect]_vars

\* ------------------------------------------------------------ the two-matcher model
\* updateGeoFile of matcher i, downloadFile: the request fails and the temp
\* file is removed, or os.Create makes or truncates the temp file.
D_Download(i, ok) ==
    /\ duo.pc[i] = "idle"
    /\ LET t == Append(LocalFile(i), ".temp")
           free == {n \in 1..MaxFiles :
                      /\ \A q \in DOMAIN duo.fs : duo.fs[q] # n
                      /\ \A j \in Insts : duo.fd[j] # n /\ duo.reader[j] # n}
           file == IF duo.fs[t] # 0 THEN duo.fs[t]
                   ELSE CHOOSE n \in free : \A h \in free : n <= h
       IN IF ok
          THEN /\ duo.fs[t] # 0 \/ free # {}
               /\ duo' = Freed([duo EXCEPT
                            !.pc[i] = "copy", !.fd[i] = file, !.fs[t] = file,
                            !.data[file] = "partial",
                            !.op = [by |-> i, kind |-> "write", files |-> {file}]])
          ELSE /\ duo.fs[t] # 0
               /\ duo' = Freed([duo EXCEPT
                            !.fs[t] = 0,
                            !.op = [by |-> i, kind |-> "delete", files |-> {duo.fs[t]}]])
    /\ UNCHANGED <<geocnvars, kvars, chk, geocity, geocn, loc, req, task, det>>

\* downloadFile, io.Copy and Close: the body is written to the descriptor; the
\* file is garbled when the other matcher writes or wrote it too.  On an error
\* the temp file is removed.
D_Copy(i, ok) ==
    /\ duo.pc[i] = "copy"
    /\ LET t == Append(LocalFile(i), ".temp")
           file == duo.fd[i]
           shared == \/ \E j \in Insts \ {i} : duo.pc[j] = "copy" /\ duo.fd[j] = file
                     \/ duo.data[file] # "partial"
       IN IF ok
          THEN \E content \in IF shared THEN {"v" \o i, "bad"} ELSE {"v" \o i} :
                 duo' = Freed([duo EXCEPT
                           !.pc[i] = "downloaded", !.fd[i] = 0, !.data[file] = content,
                           !.op = [by |-> i, kind |-> "write", files |-> {file}]])
          ELSE duo' = Freed([duo EXCEPT
                         !.pc[i] = "idle", !.fd[i] = 0, !.fs[t] = 0,
                         !.op = [by |-> i, kind |-> "delete", files |-> {duo.fs[t]} \ {0}]])
    /\ UNCHANGED <<geocnvars, kvars, chk, geocity, geocn, loc, req, task, det>>

\* geoip2.Open(tempFile): a valid file is held open; else the temp file is
\* removed and the refresh ends.
D_Validate(i) ==
    /\ duo.pc[i] = "downloaded"
    /\ LET t == Append(LocalFile(i), ".temp")
           file == duo.fs[t]
       IN IF file # 0 /\ duo.data[file] \in {"v0", "vA", "vB"}
          THEN duo' = Freed([duo EXCEPT
                         !.pc[i] = "validating", !.fd[i] = file,
                         !.op = [by |-> i, kind |-> "read", files |-> {file}]])
          ELSE duo' = Freed([duo EXCEPT
                         !.pc[i] = "idle", !.fs[t] = 0,
                         !.op = [by |-> i, kind |-> "delete", files |-> {file} \ {0}]])
    /\ UNCHANGED <<geocnvars, kvars, chk, geocity, geocn, loc, req, task, det>>

\* tempReader.Close().
D_Validated(i) ==
    /\ duo.pc[i] = "validating"
    /\ duo' = Freed([duo EXCEPT
                 !.pc[i] = "validated", !.fd[i] = 0,
                 !.op = [by |-> i, kind |-> "none", files |-> {}]])
    /\ UNCHANGED <<geocnvars, kvars, chk, geocity, geocn, loc, req, task, det>>

\* os.Rename(tempFile, m.localFile) under the matcher's own lock; when the
\* temp file is gone the refresh ends.
D_Rename(i) ==
    /\ duo.pc[i] = "validated"
    /\ LET t == Append(LocalFile(i), ".temp")
           l == LocalFile(i)
       IN IF duo.fs[t] # 0
          THEN duo' = Freed([duo EXCEPT
                         !.pc[i] = "renamed", !.fs[l] = duo.fs[t], !.fs[t] = 0,
                         !.op = [by |-> i, kind |-> "rename",
                                 files |-> {duo.fs[t], duo.fs[l]} \ {0}]])
          ELSE duo' = Freed([duo EXCEPT
                         !.pc[i] = "idle",
                         !.op = [by |-> i, kind |-> "none", files |-> {}]])
    /\ UNCHANGED <<geocnvars, kvars, chk, geocity, geocn, loc, req, task, det>>

\* geoip2.Open(m.localFile): the new reader replaces the old one, which is
\* closed; on an error the old reader stays.
D_Open(i) ==
    /\ duo.pc[i] = "renamed"
    /\ LET file == duo.fs[LocalFile(i)]
       IN duo' = Freed([duo EXCEPT
                    !.pc[i] = "idle",
                    !.reader[i] = IF duo.data[file] \in {"v0", "vA", "vB"} THEN file ELSE @,
                    !.op = [by |-> i, kind |-> "read", files |-> {file}]])
    /\ UNCHANGED <<geocnvars, kvars, chk, geocity, geocn, loc, req, task, det>>

DInit ==
    /\ GeoCNIdle
    /\ OthersIdle

DNext ==
    \E i \in Insts :
        \/ \E ok \in BOOLEAN : D_Download(i, ok)
        \/ \E ok \in BOOLEAN : D_Copy(i, ok)
        \/ D_Validate(i)
        \/ D_Validated(i)
        \/ D_Rename(i)
        \/ D_Open(i)

DuoSpec == DInit /\ [][DNext]_vars



\* ------------------------------------------------------------ claims
\* C1: under any interleaving of lookups with the updater, every lookup runs
\* its whole database query on one reader, a reader that was installed in
\* m.dbReader (the one before or the one after the swap) and that is open
\* from the start of the query to its end.
C1_QueryOnOpenReader ==
    \A l \in Lookers :
        /\ lpc[l] = "query" =>
             /\ lreader[l] \in installed
             /\ lreader[l] = dbReader
             /\ readers[lreader[l]].st = "open"
        /\ lpc[l] = "ret" => lsrc[l] # "err"

\* C1 witness: a query is in progress while the updater, its replacement file
\* validated, waits for the write lock.
C1_Witness ==
    \E l \in Lookers : lpc[l] = "query" /\ upc = "lock" /\ ucaller = "tick"

\* C2: concurrent lookups of one address that all missed the cache execute
\* the database query once: no two of them are querying at the same time.
C2_SingleQueryPerAddress ==
    \A l1, l2 \in Lookers :
        (l1 # l2 /\ lpc[l1] = "query" /\ lpc[l2] = "query") => lhost[l1] # lhost[l2]

\* C3: when an update returns nil, m.dbReader holds a newly opened reader
\* other than the one held before the call, the new reader is open, and the
\* reader held before has been closed.
C3_UpdateReplacesAndClosesOld ==
    [][(upc # "ret" /\ upc' = "ret" /\ uret' = "ok" /\ ucaller \in {"tick", "direct"}) =>
         /\ dbReader' # NilReader
         /\ dbReader' # usnap
         /\ readers'[dbReader'].st = "open"
         /\ (usnap # NilReader => readers'[usnap].st = "closed")]_vars

\* C4 (as claimed): once an update has swapped in a new reader, every lookup
\* begun after the swap returns the verdict of the database now installed.
C4_NoVerdictFromReplacedDatabase ==
    \A l \in Lookers :
        (lpc[l] = "ret" /\ lfresh[l] /\ Cardinality(installed) >= 2
           /\ dbReader # NilReader /\ lockW # "updater")
            => lres[l] = (Country(readers[dbReader].ver, lhost[l]) = "CN")

\* C4 (amended): a lookup that misses the cache queries the reader installed
\* at that moment and returns that database's verdict; a lookup that hits the
\* cache returns the verdict of the database its entry was derived from, which
\* a later swap does not invalidate.
C4_MissUsesLiveReader ==
    \A l \in Lookers : lpc[l] = "ret" =>
        /\ lsrc[l] = "db" =>
             /\ dbReader = lreader[l]
             /\ readers[dbReader].st = "open"
             /\ lres[l] = (Country(readers[dbReader].ver, lhost[l]) = "CN")
        /\ lsrc[l] = "cache" =>
             /\ lver[l] \in Versions
             /\ lres[l] = (Country(lver[l], lhost[l]) = "CN")

\* C4 witness: after a swap to a database with a different verdict, a lookup
\* begun after the swap has missed the cache and answered from the new reader.
C4_Witness ==
    \E l \in Lookers :
        /\ lpc[l] = "ret" /\ lsrc[l] = "db" /\ lfresh[l]
        /\ Cardinality(installed) = 2
        /\ readers[dbReader].ver = "v2"
        /\ \E r \in installed : r # dbReader /\ readers[r].st = "closed"

\* C5: every reader that was assigned to m.dbReader and then replaced is
\* closed exactly once, and no lookup runs on it after it was replaced.
C5_ReplacedReaderClosedOnce ==
    \A r \in installed :
        /\ readers[r].closes <= 1
        /\ (r # dbReader /\ lockW # "updater") => readers[r].closes = 1
        /\ r # dbReader => \A l \in Lookers : ~(lpc[l] = "query" /\ lreader[l] = r)

\* C6: a replaced reader is closed only when the write lock is not held.
C6_OldReaderClosedOutsideLock ==
    [][\A r \in ReaderIds :
         (readers[r].st = "open" /\ readers'[r].st = "closed" /\ r # dbReader)
             => lockW = "none"]_vars

\* C7: a refresh that fails before the rename (download or validation)
\* returns an error with no temp file left, and none of its steps changes the
\* live file or the reader.
C7_FailedRefreshLeavesNoTrace ==
    [][/\ (upc \in {"download", "dl_err", "validate"} /\ upc' # upc) =>
            /\ localFile' = localFile
            /\ fs'[localFile] = fs[localFile]
            /\ dbReader' = dbReader
            /\ readers' = readers
       /\ (upc # "ret" /\ upc' = "ret" /\ ucaller \in {"tick", "direct"}
             /\ uret' \in {"err_download", "err_invalid"}) =>
            fs'["temp"] = Absent]_vars

\* C7 witness: a tick's update has returned "invalid database file" while a
\* reader is in service.
C7_Witness ==
    /\ upc = "ret" /\ ucaller = "tick" /\ uret = "err_invalid"
    /\ dbReader # NilReader /\ fs["temp"] = Absent

\* C8: the live path never holds a partially written or unvalidated file.
C8_LivePathNeverPartial == fs["cache"] # Bad

\* C9: when the rename succeeded and the open of the live path failed, the
\* update returns an error with m.dbReader still the previous reader, open.
C9_ReopenFailureKeepsOldReader ==
    (upc = "unlock" /\ uret = "err_open") =>
        /\ dbReader = uold
        /\ uold # NilReader =>
             (readers[uold].st = "open" /\ readers[uold].closes = 0)

\* C9 witness: such a return, with a previous reader and the new file in place.
C9_Witness ==
    /\ upc = "unlock" /\ uret = "err_open" /\ uold # NilReader
    /\ fs["temp"] = Absent /\ Live \in Versions

\* C10: a failed check or update in a tick does not end periodicUpdate: the
\* loop goes back to waiting with the reader it had, a further tick is
\* possible, and the loop ends only when the context is cancelled.
C10_FailedTickKeepsLoopAndReader ==
    /\ [](upc = "exit" => ctxDone)
    /\ []((upc = "ret" /\ ucaller = "tick" /\ uret \notin {"ok", "noop"}) =>
            /\ dbReader \in {usnap, NilReader}
            /\ dbReader # NilReader => readers[dbReader].st = "open")
    /\ [][(upc = "ret" /\ ucaller = "tick" /\ upc' # upc) =>
            (upc' = "wait" /\ dbReader' = dbReader /\ readers' = readers)]_vars

\* C10 witness: a tick's update has failed after the rename and is about to
\* hand its error to the loop, a reader being in service.
C10_Witness ==
    /\ upc = "ret" /\ ucaller = "tick" /\ uret = "err_open"
    /\ dbReader # NilReader /\ ~ctxDone

\* C11: once the owning context is cancelled, the cache sweep and
\* periodicUpdate each return in the end, under fair scheduling.  The
\* cancellation and the two returns are final, so "cancelled leads to
\* returned" is: again and again, not cancelled or both returned.
C11_BackgroundTasksReturn ==
    /\ [][/\ ctxDone => ctxDone'
          /\ spc = "exit" => spc' = "exit"
          /\ upc = "exit" => upc' = "exit"]_vars
    /\ []<>(~ctxDone \/ (spc = "exit" /\ upc = "exit"))

\* C11 witness: both tasks have returned after a cancellation that found
\* the refresh in the middle of an update.
C11_Witness == ctxDone /\ spc = "exit" /\ upc = "exit" /\ Cardinality(installed) = 2

\* C12: Cleanup is idempotent: a call closes the live reader, if there is
\* one, that reader being closed for the first and only time, and leaves
\* m.dbReader nil; a call that finds the field nil closes nothing.
C12_CleanupIdempotent ==
    [][Cleanup =>
         /\ dbReader' = NilReader
         /\ \A r \in ReaderIds : readers'[r].closes <= 1
         /\ dbReader # NilReader =>
              (readers'[dbReader].st = "closed" /\ readers'[dbReader].closes = 1)
         /\ dbReader = NilReader => readers' = readers]_vars

\* C12 witness: Cleanup has closed the one reader ever installed and can be
\* called again.
C12_Witness ==
    /\ dbReader = NilReader /\ Provisioned /\ CanLock
    /\ \E r \in ReaderIds : installed = {r} /\ readers[r].closes = 1

\* C13 (as claimed): a lookup that returns while m.dbReader is nil returns
\* no-match.
C13_NilReaderNoMatch ==
    [][\A l \in Lookers :
         (lpc[l] # "ret" /\ lpc'[l] = "ret" /\ dbReader = NilReader)
             => lres'[l] = FALSE]_vars

\* C13 (amended): a lookup that missed the cache and finds m.dbReader nil
\* returns no-match at once, and never calls Country on a nil reader.
C13_MissOnNilReaderNoMatch ==
    [][\A l \in Lookers :
         (lpc[l] = "rlock" /\ lpc'[l] # "rlock" /\ dbReader = NilReader)
             => (lpc'[l] = "ret" /\ lres'[l] = FALSE /\ lsrc'[l] = "nil")]_vars

\* C13 witness: after Cleanup, a lookup has found the reader nil.
C13_Witness ==
    \E l \in Lookers :
        lpc[l] = "ret" /\ lsrc[l] = "nil" /\ installed # {} /\ dbReader = NilReader

\* C14: Get(key) finds the key exactly when an entry for it is stored and its
\* age, counted from the key's last Set, is at most ttl; a key never set and
\* a key whose age exceeds ttl are not found, swept or not.
C14_GetFoundIffFresh ==
    kop.op = "get" =>
        LET k == kop.key
        IN /\ kop.found <=> (k \in DOMAIN kentries /\ know - klast[k].t <= KTTL)
           /\ k \in DOMAIN kentries => (klast[k].set /\ kentries[k].ts = klast[k].t)
           /\ ~klast[k].set => ~kop.found
           /\ (klast[k].set /\ know - klast[k].t > KTTL) => ~kop.found

\* C14 witness: a Get has missed an expired entry that no sweep has removed.
C14_Witness ==
    kop.op = "get" /\ ~kop.found /\ kop.key \in DOMAIN kentries

\* C15: a Get of a key whose last Set is at most ttl old, and whose entry no
\* capacity eviction has removed since, returns that Set's value, found.
C15_GetReturnsLastSet ==
    kop.op = "get" =>
        LET k == kop.key
        IN (klast[k].set /\ ~klast[k].ev /\ know - klast[k].t <= KTTL)
               => (kop.found /\ kop.value = klast[k].v)

\* C15 witness: a Get at the last moment of the entry's life, in a full
\* cache that a sweep has just passed over.
C15_Witness ==
    /\ kop.op = "get" /\ kop.found /\ kop.value = "y"
    /\ know - klast[kop.key].t = KTTL
    /\ Cardinality(DOMAIN kentries) = KMaxSize

\* C16: a Set of a new key into a cache holding maxSize entries removes
\* exactly one entry, one of smallest timestamp; the new key is then present
\* and the other entries are unchanged.
C16_SetAtCapacityEvictsOneOldest ==
    [][\A k \in Keys, v \in KValues :
         (K_Set(k, v) /\ k \notin DOMAIN kentries
            /\ Cardinality(DOMAIN kentries) = KMaxSize) =>
             LET gone == DOMAIN kentries \ DOMAIN kentries'
             IN /\ Cardinality(gone) = 1
                /\ gone \subseteq Oldest(kentries)
                /\ k \in DOMAIN kentries'
                /\ \A j \in DOMAIN kentries \ gone : kentries'[j] = kentries[j]]_vars

\* C17: the number of stored entries never exceeds maxSize.
C17_SizeNeverExceedsMax == Cardinality(DOMAIN kentries) <= KMaxSize

\* C18: a Set of a key that is already stored evicts nothing: every other
\* key stays, with its value and timestamp.
C18_OverwriteEvictsNothing ==
    [][\A k \in Keys, v \in KValues :
         (K_Set(k, v) /\ k \in DOMAIN kentries) =>
             \A j \in DOMAIN kentries \ {k} :
                 j \in DOMAIN kentries' /\ kentries'[j] = kentries[j]]_vars

\* C19: eviction is least-recently-used: the entry a Set removes is one whose
\* last access (Get hit or Set) is no later than that of any other entry.
C19_EvictionIsLRU ==
    [][\A k \in Keys, v \in KValues :
         K_Set(k, v) =>
             \A j \in DOMAIN kentries \ DOMAIN kentries' :
                 \A i \in DOMAIN kentries \ {j} : kacc[j] <= kacc[i]]_vars

\* C20: for an HTTP source with the local file present and a 200 HEAD
\* response without Last-Modified, the check returns no error, and
\* needs-update exactly when the time since the file's mtime is at least the
\* configured interval, a non-positive interval counting as 24 hours.
C20_NoLastModifiedUsesInterval ==
    (/\ chk.st = "done"
     /\ chk.in.http /\ chk.in.exists /\ chk.in.exists2
     /\ chk.in.head = "ok" /\ chk.in.lm = "none") =>
        /\ ~chk.err
        /\ chk.in.interval > 0 => (chk.need <=> chk.in.since >= chk.in.interval)
        /\ chk.in.interval <= 0 => (chk.need <=> chk.in.since >= 24)

\* C20 witness: with no interval configured, a file exactly 24 hours old
\* needs an update.
C20_Witness ==
    /\ chk.st = "done"
    /\ chk.in.http /\ chk.in.exists /\ chk.in.exists2
    /\ chk.in.head = "ok" /\ chk.in.lm = "none"
    /\ chk.in.interval = 0 /\ chk.in.since = 24 /\ chk.need

\* C21: for an HTTP source with the local file present, a 200 HEAD response
\* with a parsable Last-Modified gives needs-update exactly when the remote
\* time is strictly later than the local mtime; a failed HEAD, a non-200
\* status or an unparsable Last-Modified gives an error and no update.
C21_LastModifiedStrictlyNewer ==
    (chk.st = "done" /\ chk.in.http /\ chk.in.exists /\ chk.in.exists2) =>
        /\ (chk.in.head = "ok" /\ chk.in.lm = "time") =>
              (~chk.err /\ (chk.need <=> chk.in.remote > chk.in.mtime))
        /\ (chk.in.head # "ok" \/ chk.in.lm = "unparsable") =>
              (chk.err /\ ~chk.need)

\* C21 witness: equal remote and local times, and no update is asked for.
C21_Witness ==
    /\ chk.st = "done" /\ chk.in.http /\ chk.in.exists /\ chk.in.exists2
    /\ chk.in.head = "ok" /\ chk.in.lm = "time"
    /\ chk.in.remote = 1 /\ chk.in.mtime = 1 /\ ~chk.need /\ ~chk.err

\* C22: with a local path as the source, a tick of periodicUpdate ends at
\* once with nothing to do, whatever a HEAD probe would have answered: it
\* downloads nothing and leaves the live file, m.localFile and the reader
\* as they are.
C22_LocalSourceTickDoesNothing ==
    [][source = "local" =>
         /\ ucaller' = "tick" => (upc' = "ret" /\ uret' = "noop")
         /\ (ucaller # "tick" /\ ucaller' = "tick") =>
               (fs' = fs /\ localFile' = localFile /\ dbReader' = dbReader
                  /\ readers' = readers)]_vars

\* C22 witness: a tick has run for a local source with a reader in service.
C22_Witness ==
    /\ source = "local" /\ ucaller = "tick" /\ upc = "ret" /\ uret = "noop"
    /\ dbReader # NilReader

C24_ForeignNeverMatches ==
    (loc.st = "done" /\ geocity.provisioned /\ loc.searched # "none" /\ ~loc.ans.err
        /\ geocity.Mode \in {"allow", "deny"}) =>
        \A p, ci \in {<<>>, <<"a">>, <<"a", "b">>, <<" ", "b", " ">>} :
            loc.ans.region = <<"US", "|", "0", "|">> \o p \o <<"|">> \o ci \o <<"|", "i">> =>
                ~loc.matched

\* C25: a region string with fewer than 4 fields gives no-match, in every mode
\* and for all keyword lists, and no verdict for the address is in the cache
\* when the call returns.
C25_ShortRegionNoMatchNotCached ==
    (loc.st = "done" /\ geocity.provisioned /\ loc.searched # "none" /\ ~loc.ans.err
        /\ Cardinality({i \in 1..Len(loc.ans.region) : loc.ans.region[i] = "|"}) < 3) =>
        /\ ~loc.matched
        /\ ~loc.cwrite
        /\ IPString(loc.ip) \notin DOMAIN geocity.entries

\* C25 witness: deny mode without keywords and the cache enabled, the searcher
\* answered a region of three fields, and the verdict is no-match.
C25_Witness ==
    /\ loc.st = "done"
    /\ geocity.Mode = "deny"
    /\ geocity.Provinces = {}
    /\ geocity.Cities = {}
    /\ geocity.cacheOn
    /\ loc.ans = [err |-> FALSE, region |-> <<"CN", "|", "0", "|", "a">>]
    /\ ~loc.matched

\* C26: a lookup of a string that does not parse as an IP, or of a private,
\* loopback, link-local, unspecified or multicast address, returns no-match,
\* asks no reader or searcher, does not read or write the cache, and leaves
\* the matcher as it was.
C26_SkippedAddressTouchesNothing ==
    [][(loc.st = "idle" /\ loc'.st = "done"
          /\ loc'.ip \in {NilIP, "", "bad", "10.0.0.1", "127.0.0.1", "169.254.0.1",
                          "0.0.0.0", "224.0.0.1", "ff0e::1"}) =>
        /\ ~loc'.matched
        /\ loc'.searched = "none"
        /\ ~loc'.cread /\ ~loc'.hit /\ ~loc'.cwrite
        /\ geocity' = geocity
        /\ geocn' = geocn]_vars

\* C26 witness: a GeoCN with its reader and an entry in its cache has skipped
\* a multicast address.
C26_Witness ==
    /\ loc.st = "done"
    /\ loc.ip = "ff0e::1"
    /\ geocn.dbReader
    /\ geocn.cacheOn
    /\ DOMAIN geocn.entries # {}
    /\ ~loc.matched

\* C28 (as claimed): an IPv4 address, IPv4-mapped form included, is asked of
\* the IPv4 searcher only and every other address of the IPv6 searcher only;
\* when the searcher of the address's family is nil the verdict is no-match.
C28_FamilySearcherNilNoMatch ==
    (loc.st = "done" /\ geocity.provisioned) =>
        /\ loc.ip \in {"1.2.3.4", "::ffff:1.2.3.4"} =>
              /\ loc.searched \in {"none", "IPv4"}
              /\ ~geocity.searcherIPv4 => ~loc.matched
        /\ loc.ip = "2001::1" =>
              /\ loc.searched \in {"none", "IPv6"}
              /\ ~geocity.searcherIPv6 => ~loc.matched

\* C28 (amended): the searcher is chosen by family as claimed; when the
\* searcher of the address's family is nil, a lookup that is not answered from
\* the cache returns no-match and asks no searcher.
C28_FamilySearcherNilNoMatchOnMiss ==
    (loc.st = "done" /\ geocity.provisioned) =>
        /\ loc.ip \in {"1.2.3.4", "::ffff:1.2.3.4"} =>
              /\ loc.searched \in {"none", "IPv4"}
              /\ (~geocity.searcherIPv4 /\ ~loc.hit) =>
                    (~loc.matched /\ loc.searched = "none")
              /\ (geocity.searcherIPv4 /\ ~loc.hit) => loc.searched = "IPv4"
        /\ loc.ip = "2001::1" =>
              /\ loc.searched \in {"none", "IPv6"}
              /\ (~geocity.searcherIPv6 /\ ~loc.hit) =>
                    (~loc.matched /\ loc.searched = "none")
              /\ (geocity.searcherIPv6 /\ ~loc.hit) => loc.searched = "IPv6"

\* C28 witness: an IPv4-mapped address missed the cache while only the IPv6
\* searcher is loaded, and the verdict is no-match.
C28_Witness ==
    /\ loc.st = "done"
    /\ loc.ip = "::ffff:1.2.3.4"
    /\ ~geocity.searcherIPv4
    /\ geocity.searcherIPv6
    /\ geocity.cacheOn
    /\ ~loc.hit
    /\ ~loc.matched

C30_NoSharedFiles ==
    [][\A i \in Insts :
         (duo'.op.by = i /\ duo'.pc[i] # duo.pc[i]
             /\ duo'.op.kind \in {"write", "rename", "delete"}) =>
             \A j \in Insts \ {i} :
                 \A file \in duo'.op.files :
                     /\ ~(duo.pc[j] \in {"copy", "validating"} /\ duo.fd[j] = file)
                     /\ duo.reader[j] # file]_vars

\* C31: the write lock of m.lock is held only by an update that is past its
\* download and its validation: never while the HEAD probe of a tick, the GET of
\* updateGeoFile or the GET of loadDatabase is under way or yet to come, so a
\* lookup that arrives during a download can take the read lock.
C31_NoNetworkUnderWriteLock ==
    /\ lockW # "none" => upc \in {"rename", "open", "close", "unlock"}
    /\ upc \in {"wait", "download", "dl_err", "validate", "ld_fetch"} => CanRLock

\* An update is at its download while a lookup holds the read lock and queries.
C31_Witness ==
    /\ upc = "download"
    /\ IsHTTP
    /\ \E l \in Lookers : lpc[l] = "query" /\ l \in lockR

\* C32: no deadlock among lookups, the sweep, the updater and Cleanup.  The
\* cache is touched by a lookup before it asks for m.lock or while it holds the
\* read lock, and never by a step of the updater; an update that has
\* returned has released the write lock on every path; and every validSource
\* call that has started returns.
C32_LookupsAlwaysReturn ==
    /\ [](upc \in {"ret", "wait", "exit", "failed"} => lockW = "none")
    /\ [][/\ upc' # upc => cache' = cache
           /\ \A l \in Lookers :
                (lpc[l] = "query" /\ lpc'[l] = "ret") => l \in lockR /\ lockW = "none"]_vars
    /\ \A l \in Lookers : []<>(lpc[l] = "idle")

\* A lookup waits for the read lock while the updater holds the write lock
\* after a failed rename or reopen.
C32_Witness ==
    /\ lockW = "updater"
    /\ upc = "unlock"
    /\ uret \in {"err_rename", "err_open"}
    /\ \E l \in Lookers : lpc[l] = "rlock"

\* C33: once Cleanup has closed the live reader and cleared m.dbReader (the
\* field is nil although a reader was installed before), the field stays nil:
\* no later step of an update or of loadDatabase installs a reader.
C33_ReaderStaysNilAfterCleanup ==
    [][(installed # {} /\ dbReader = NilReader) => dbReader' = NilReader]_vars

\* C34: a pass of the sweep removes the entries whose age exceeds ttl and
\* nothing else: an entry whose age is at most ttl is stored afterwards with the
\* value and the timestamp it had, no entry appears, and every Get answers
\* after the pass what it would have answered before it.
C34_SweepRemovesExpiredOnly ==
    [][kop'.op = "sweep" =>
         /\ DOMAIN kentries' \subseteq DOMAIN kentries
         /\ \A k \in DOMAIN kentries :
              IF know - kentries[k].ts > KTTL
              THEN k \notin DOMAIN kentries'
              ELSE k \in DOMAIN kentries' /\ kentries'[k] = kentries[k]
         /\ \A k \in Keys : KGet(kentries', k, know') = KGet(kentries, k, know)]_vars

\* A pass has removed an expired entry and kept one whose age equals ttl.
C34_Witness ==
    /\ kop.op = "sweep"
    /\ \E k \in Keys :
         klast[k].set /\ ~klast[k].ev /\ k \notin DOMAIN kentries
    /\ \E j \in DOMAIN kentries : know - kentries[j].ts = KTTL

\* C35: a lookup of a public address that misses the cache and fails (the
\* reader or searcher is nil, the query answers with an error or without data,
\* the country code is empty, or the region has too few fields) returns
\* no-match and stores nothing: the address has no entry afterwards, and the
\* next lookup of it, with the database available, asks the database.
C35_FailuresNotCached ==
    LET city == geocity.provisioned
        public == loc.ip # "" /\ ParseIP(loc.ip) # NilIP /\ ~checkPrivateIP(loc.ip)
        failed ==
            \/ loc.searched = "none"
            \/ loc.ans.err
            \/ city /\ Len(Split(loc.ans.region, "|")) < 4
            \/ ~city /\ loc.ans.country = ""
    IN (loc.st = "done" /\ public /\ ~loc.hit /\ failed) =>
          /\ ~loc.matched
          /\ ~loc.cwrite
          /\ IF city
             THEN /\ IPString(loc.ip) \notin DOMAIN geocity.entries
                  /\ \A a \in Answers :
                       MatchLocation([geocity EXCEPT !.searcherIPv4 = TRUE,
                                                     !.searcherIPv6 = TRUE],
                                     loc.ip, a).searched # "none"
             ELSE /\ loc.ip \notin DOMAIN geocn.entries
                  /\ \A a \in CountryAnswers :
                       ValidSource([geocn EXCEPT !.dbReader = TRUE],
                                   loc.ip, a).searched = "dbReader"

\* With the cache enabled and entries in it, the reader has answered a lookup
\* with an empty country code.
C35_Witness ==
    /\ loc.st = "done"
    /\ geocn.provisioned /\ geocn.cacheOn /\ geocn.entries # <<>>
    /\ loc.searched = "dbReader" /\ ~loc.ans.err /\ loc.ans.country = ""

\* C36: the streams of a GeoCity are independent.  A step of Provision or of a
\* tick that works on one stream (loadDatabase, checkNeedUpdate,
\* updateDatabaseIPv4 or updateDatabaseIPv6, succeeding or failing) leaves the
\* searcher, the cache file, the temp file and the source of the other stream
\* as they were; and a tick that has ended has checked every stream with an
\* HTTP source, whatever happened to the streams before it.
C36_StreamsIndependent ==
    /\ [][\A s \in DOMAIN task.searcher :
             (task.pc \in {"load", "check", "update"}
                 /\ Streams(task.kind)[task.cur] # s) =>
                 /\ task'.searcher[s] = task.searcher[s]
                 /\ task'.file[s] = task.file[s]
                 /\ task'.temp[s] = task.temp[s]
                 /\ task'.origin[s] = task.origin[s]]_vars
    /\ [](task.pc = "idle" /\ task.ticked =>
             task.tried = {s \in DOMAIN task.src : task.src[s] = "http"})

\* A tick of a GeoCity has ended in which the IPv4 check or update failed and
\* the IPv6 update installed a new searcher.
C36_Witness ==
    /\ task.kind = "geocity"
    /\ task.pc = "idle" /\ task.ticked
    /\ "ipv4" \in task.failed
    /\ "ipv6" \in task.tried
    /\ task.searcher["ipv4"] = "v1"
    /\ task.searcher["ipv6"] = "v2"

\* C37: Provision returns an error exactly when no reader or searcher could be
\* loaded: a Provision that has failed has left every reader nil and started
\* no refresh task, and after a Provision that has succeeded at least one
\* reader is not nil and one refresh task, no more, has been started.
C37_ProvisionOutcome ==
    LET noReader == \A s \in DOMAIN task.searcher : task.searcher[s] = "nil"
    IN /\ task.err <=> task.pc = "failed"
       /\ task.pc = "failed" => noReader /\ task.started = 0
       /\ task.pc \in {"idle", "check", "update"} => ~noReader /\ task.started = 1
       /\ task.pc \in {"new", "load"} => task.started = 0

\* GeoCity.Provision has succeeded with the IPv6 searcher alone.
C37_Witness ==
    /\ task.kind = "geocity"
    /\ task.pc = "idle" /\ ~task.ticked /\ ~task.err
    /\ task.started = 1
    /\ task.searcher["ipv4"] = "nil"
    /\ task.searcher["ipv6"] = "v1"
    /\ "ipv4" \in task.failed

\* C38: in allow mode with keywords configured (none of them empty), a
\* domestic record is matched only when one of its fields is not empty and
\* contains a keyword of its list or is contained in one; a record whose
\* province and city are both empty is not matched.
C38_AllowNeedsNonEmptyField ==
    LET parts == Split(loc.ans.region, "|")
        province == TrimSpace(parts[3])
        city == TrimSpace(parts[4])
    IN (/\ loc.st = "done" /\ geocity.provisioned /\ geocity.Mode = "allow"
        /\ geocity.Provinces \cup geocity.Cities # {}
        /\ <<>> \notin geocity.Provinces \cup geocity.Cities
        /\ loc.searched # "none" /\ ~loc.ans.err
        /\ Len(parts) >= 4 /\ TrimSpace(parts[1]) = Domestic
        /\ loc.matched) =>
           \/ /\ province # <<>>
              /\ \E p \in geocity.Provinces : Contains(province, p) \/ Contains(p, province)
           \/ /\ city # <<>>
              /\ \E c \in geocity.Cities : Contains(city, c) \/ Contains(c, city)

\* C39: in the legacy matcher an update that fails at the rename or at the
\* reopen leaves m.dbReader on an open reader, and every lookup gets its answer
\* from an open reader, never from a closed or a nil one.
C39_LegacyFailedUpdateKeepsReader ==
    /\ (upc = "ret" /\ uret \in {"err_rename", "err_open"}) =>
          (dbReader # NilReader /\ readers[dbReader].st = "open")
    /\ \A l \in Lookers : lpc[l] = "ret" => lsrc[l] = "db"

\* C40: the two detectors agree on every string that parses as an address:
\* both answer IPv4 when the address has a 4-byte form and IPv6 otherwise; an
\* IPv4 address followed by a port gives IPv4; the empty string and a string
\* that is neither an address nor an address with a port, spaces aside, give
\* the IPv4 default.
C40_DetectorsAgree ==
    LET ip == ParseIP(Str(det.s))
        t == TrimSpace(det.s)
        n == Len(t)
        host == IF n >= 2 /\ t[n - 1] = ":" THEN SubSeq(t, 1, n - 2)
                ELSE IF n >= 1 /\ t[n] = ":" THEN SubSeq(t, 1, n - 1)
                ELSE t
    IN det.pc = "done" =>
         /\ ip # NilIP =>
              /\ det.fromString = det.fromIP
              /\ det.fromIP = (IF To4(ip) THEN "IPv4" ELSE "IPv6")
         /\ (Len(det.s) = 3 /\ det.s[2] = ":" /\ det.s[3] = "80"
             /\ To4_NotMapped(det.s[1])) => det.fromString = "IPv4"
         /\ (ParseIP(Str(t)) = NilIP /\ ParseIP(Str(host)) = NilIP) =>
              det.fromString = "IPv4"

====
